---- MODULE Spec2Model ----
(***************************************************************************)
(* A state-machine model of tdr2024, a top-down racing game.               *)
(*                                                                         *)
(* Real-valued quantities of the program (f32) are modelled in fixed       *)
(* point: world positions in tenths of a world unit, times in              *)
(* milliseconds, tile coordinates in thousandths of a tile and angles in   *)
(* units of pi/12.                                                         *)
(***************************************************************************)
EXTENDS Integers, Sequences, FiniteSets, TLC

VARIABLES
    \* level load and lap counting
    objs,            \* the object layer of the map being loaded
    entities,        \* the entities spawn_objects has spawned
    loaded,          \* the map's Added event has been handled
    lapCount,        \* Racer.lap_count
    subMask,         \* checkpoints touched since the last start/finish crossing
    startFinishBit,  \* the bit of the car's start/finish checkpoint, 0 = unset
    touches,         \* history: the checkpoints (indices) touched so far
    \* a guidance field and one query of it
    qfield,          \* the GuidanceField queried
    qpos,            \* the world position of the last query
    qres,            \* what GuidanceField::get did with it
    \* moving bodies and the loop of collision_detection over their pairs
    bodies,          \* the entities with a Transform, a TextureAtlas and a Velocity
    pairIdx,         \* how many pairs the running collision_detection has handled
    lastPair,        \* history: the pair handled last, as it was before
    before,          \* history: the bodies as collision_detection found them
    \* the racers and the frames of a run
    cars,            \* the racers: the player, then the AI racers
    camera,          \* the camera's translation
    maps,            \* whether Assets<TiledMap> holds the level's map
    added,           \* the map's Added event: none, queued, sent or read
    guide,           \* whether the GuidanceField resource exists
    inserts,         \* whether an insert_resource command is pending
    keys,            \* the keys held down
    dt,              \* time.delta_seconds(), in milliseconds
    tick,            \* the number of frames begun
    inTick,          \* whether the Update schedule is running
    ran,             \* the systems that have run in this frame
    penalty0,        \* history: the racers' penalties when the frame began
    skipped,         \* history: the racers penalised in this frame
    panicked,        \* whether a system has panicked
    \* one call of a function of the program
    call,            \* the function called and its arguments
    ret              \* whether it has returned, and what

lapVars == <<objs, entities, loaded, lapCount, subMask, startFinishBit, touches>>

fieldVars == <<qfield, qpos, qres>>

colVars == <<bodies, pairIdx, lastPair, before>>

worldVars == <<cars, camera, maps, added, guide, inserts>>

tickVars == <<worldVars, keys, dt, tick, inTick, ran, penalty0, skipped, panicked>>

callVars == <<call, ret>>

vars == <<lapVars, fieldVars, colVars, tickVars, callVars>>

----------------------------------------------------------------------------
(* Arithmetic helpers *)

Max(a, b) == IF a >= b THEN a ELSE b

Min(a, b) == IF a <= b THEN a ELSE b

Abs(a) == IF a < 0 THEN -a ELSE a

RECURSIVE Pow2(_)
Pow2(n) == IF n = 0 THEN 1 ELSE 2 * Pow2(n - 1)

\* Bitwise OR of two naturals (Rust's `|` on unsigned integers).
RECURSIVE BitOr(_, _)
BitOr(a, b) ==
    IF a = 0 THEN b
    ELSE IF b = 0 THEN a
    ELSE (IF (a % 2 = 1) \/ (b % 2 = 1) THEN 1 ELSE 0) + 2 * BitOr(a \div 2, b \div 2)

Last(s) == s[Len(s)]

Sign(a) == IF a > 0 THEN 1 ELSE IF a < 0 THEN -1 ELSE 0

\* Division rounding towards zero, as f32-to-integer casts do.
TruncDiv(a, b) == Sign(a) * Sign(b) * (Abs(a) \div Abs(b))

\* The integer square root, by bisection.
RECURSIVE SqrtBetween(_, _, _)
SqrtBetween(n, lo, hi) ==
    IF lo >= hi THEN lo
    ELSE LET mid == (lo + hi + 1) \div 2
         IN  IF mid * mid <= n THEN SqrtBetween(n, mid, hi)
             ELSE SqrtBetween(n, lo, mid - 1)

ISqrt(n) == SqrtBetween(n, 0, 46340)

\* 1000 * cos(k * pi/12) for k = 0..6.
CosTable == <<1000, 966, 866, 707, 500, 259, 0>>

\* 1000 * cos and 1000 * sin of an angle given in units of pi/12.
Cos(a) ==
    LET k == a % 24
    IN  IF k <= 6 THEN CosTable[k + 1]
        ELSE IF k <= 12 THEN -CosTable[12 - k + 1]
        ELSE IF k <= 18 THEN -CosTable[k - 12 + 1]
        ELSE CosTable[24 - k + 1]

Sin(a) == Cos(a - 6)

\* A Vec2 is [x, y] in fixed point; [nan |-> TRUE] marks one whose
\* components are NaN.
Vec(x, y) == [x |-> x, y |-> y, nan |-> FALSE]

VecNaN == [x |-> 0, y |-> 0, nan |-> TRUE]

VecAdd(a, b) == IF a.nan \/ b.nan THEN VecNaN ELSE Vec(a.x + b.x, a.y + b.y)

VecSub(a, b) == IF a.nan \/ b.nan THEN VecNaN ELSE Vec(a.x - b.x, a.y - b.y)

----------------------------------------------------------------------------
(* Level load: objectmap.rs *)

MaxObjects == 3

\* What one object of a tiled object layer can be: a shape object (a
\* rectangle, or a shape spawn_shape does not support) or a tile object
\* (well formed, or lacking the tile image).
ObjKinds == {"rect", "ellipse", "tile", "noimage"}

\* More tile objects: the red car and a blue car, and tile objects whose
\* tileset location is not a map id, whose tile id the tileset lacks, or
\* whose image name cannot be converted.
TileKinds == {"car_red", "car_blue", "notmapid", "notile", "badname"}

AllKinds == ObjKinds \cup TileKinds

\* LapCounter(1 << num)
LapCounterBitNoShift(num) == num

LapCounterBit(num) == Pow2(num)

\* spawn_shape: a rectangle becomes a checkpoint; anything else is
\* reported and spawns nothing.
spawn_shape(kind, num) ==
    IF kind = "rect"
    THEN <<[name |-> "Checkpoint", bit |-> LapCounterBit(num)]>>
    ELSE <<>>

\* spawn_object: a tile object with an image becomes a sprite entity: the
\* human's car, an AI car or scenery, by the name of its image.
spawn_object(kind) ==
    IF kind = "badname" THEN <<>>
    ELSE IF kind = "car_red" THEN <<[name |-> "Human", bit |-> 0]>>
    ELSE IF kind = "car_blue" THEN <<[name |-> "AI", bit |-> 0]>>
    ELSE <<[name |-> "Scenery", bit |-> 0]>>

\* spawn_objects with shape_number counting rectangles only.
RECURSIVE spawn_loop_count_rects(_, _, _)
spawn_loop_count_rects(os, i, shape_number) ==
    IF i > Len(os) THEN <<>>
    ELSE IF os[i] = "rect"
         THEN spawn_shape(os[i], shape_number)
              \o spawn_loop_count_rects(os, i + 1, shape_number + 1)
         ELSE IF os[i] \in {"ellipse", "notmapid", "notile", "noimage"}
              THEN spawn_loop_count_rects(os, i + 1, shape_number)
              ELSE spawn_object(os[i]) \o spawn_loop_count_rects(os, i + 1, shape_number)

\* spawn_objects returning at the first object it cannot use.
RECURSIVE spawn_loop_return(_, _, _)
spawn_loop_return(os, i, shape_number) ==
    IF i > Len(os) THEN <<>>
    ELSE IF os[i] \in {"rect", "ellipse"}
         THEN spawn_shape(os[i], shape_number)
              \o spawn_loop_return(os, i + 1, shape_number + 1)
         ELSE IF os[i] \in {"notmapid", "notile", "noimage"}
              THEN <<>>
              ELSE spawn_object(os[i]) \o spawn_loop_return(os, i + 1, shape_number)

\* spawn_objects: the loop over the objects, shape_number counting every
\* object without tile data.
RECURSIVE spawn_loop(_, _, _)
spawn_loop(os, i, shape_number) ==
    IF i > Len(os) THEN <<>>
    ELSE IF os[i] \in {"rect", "ellipse"}
         THEN spawn_shape(os[i], shape_number) \o spawn_loop(os, i + 1, shape_number + 1)
         ELSE IF os[i] \in {"notmapid", "notile", "noimage"}
              THEN spawn_loop(os, i + 1, shape_number)
              ELSE spawn_object(os[i]) \o spawn_loop(os, i + 1, shape_number)

spawn_objects(os) == spawn_loop(os, 1, 0)

\* The bits of the spawned checkpoints, in spawn order.
RECURSIVE CheckpointBitsOf(_)
CheckpointBitsOf(es) ==
    IF es = <<>> THEN <<>>
    ELSE (IF Head(es).name = "Checkpoint" THEN <<Head(es).bit>> ELSE <<>>)
         \o CheckpointBitsOf(Tail(es))

checkpoints == CheckpointBitsOf(entities)

\* handle_map_events: the map's Added event spawns its objects.
handle_map_events ==
    /\ ~loaded
    /\ entities' = spawn_objects(objs)
    /\ loaded' = TRUE
    /\ UNCHANGED <<objs, lapCount, subMask, startFinishBit, touches>>

----------------------------------------------------------------------------
(* Lap counter: the per-car checkpoint state machine *)

MaxTouches == 5

RECURSIVE OrAll(_)
OrAll(bits) == IF bits = <<>> THEN 0 ELSE BitOr(Head(bits), OrAll(Tail(bits)))

\* The lap-complete mask: the OR of all checkpoint bits.
fullMask == OrAll(checkpoints)

\* The state after the car touches a checkpoint with bit b.
TouchNoStartCheck(st, b) ==
    LET sf == IF st.sf = 0 THEN b ELSE st.sf
        sm == BitOr(st.sm, b)
    IN  IF sm = fullMask
        THEN [lap |-> st.lap + 1, sm |-> b, sf |-> sf]
        ELSE [lap |-> st.lap, sm |-> sm, sf |-> sf]

\* The state after a touch that, when it counts a lap, keeps the checkpoints
\* it has accumulated.
TouchNoReset(st, b) ==
    LET sf == IF st.sf = 0 THEN b ELSE st.sf
        sm == BitOr(st.sm, b)
    IN  IF sm = fullMask /\ b = sf
        THEN [lap |-> st.lap + 1, sm |-> sm, sf |-> sf]
        ELSE [lap |-> st.lap, sm |-> sm, sf |-> sf]

Touch(st, b) ==
    LET sf == IF st.sf = 0 THEN b ELSE st.sf
        sm == BitOr(st.sm, b)
    IN  IF sm = fullMask /\ b = sf
        THEN [lap |-> st.lap + 1, sm |-> b, sf |-> sf]
        ELSE [lap |-> st.lap, sm |-> sm, sf |-> sf]

\* One touch of checkpoint c by the car during a tick.
lap_counter(c) ==
    /\ loaded
    /\ Len(touches) < MaxTouches
    /\ c \in 1..Len(checkpoints)
    /\ LET st == Touch([lap |-> lapCount, sm |-> subMask, sf |-> startFinishBit],
                       checkpoints[c])
       IN  /\ lapCount' = st.lap
           /\ subMask' = st.sm
           /\ startFinishBit' = st.sf
    /\ touches' = Append(touches, c)
    /\ UNCHANGED <<objs, entities, loaded>>

LapSeqs == UNION {[1..n -> ObjKinds] : n \in 0..MaxObjects}

\* The object layers of a level, of every kind of object.
SpawnSeqs == UNION {[1..n -> AllKinds] : n \in 0..MaxObjects}

\* The level-load and lap state before a map is loaded.
LapStart(os) ==
    /\ objs = os
    /\ entities = <<>>
    /\ loaded = FALSE
    /\ lapCount = 0
    /\ subMask = 0
    /\ startFinishBit = 0
    /\ touches = <<>>

----------------------------------------------------------------------------
(* Claims about the lap counter *)

\* The touches so far are pairwise different checkpoints.
DistinctTouches(k) == \A i, j \in 1..k : i # j => touches[i] # touches[j]

\* C1: a touch increments lapCount, by exactly 1, if and only if subMask
\* with the touched bit OR-ed in equals fullMask and the touched bit is the
\* car's startFinishBit; that touch resets subMask to the touched bit; every
\* other touch leaves lapCount alone and only adds the touched bit to subMask.
C1_TouchRule ==
    [][Len(touches') = Len(touches) + 1 =>
        LET b == checkpoints[Last(touches')]
            sm == BitOr(subMask, b)
            counts == (sm = fullMask /\ b = startFinishBit')
        IN  /\ (lapCount' = lapCount + 1) <=> counts
            /\ lapCount' \in {lapCount, lapCount + 1}
            /\ counts => subMask' = b
            /\ ~counts => subMask' = sm]_vars

\* A lap was counted by a touch that followed touches of other checkpoints.
C1_Witness ==
    /\ lapCount = 1
    /\ Len(checkpoints) >= 2
    /\ Len(touches) = Len(checkpoints) + 1
    /\ subMask = checkpoints[Last(touches)]

\* The trace of C2 for a level of n checkpoints: no lap while the car
\* touches different checkpoints, each for the first time; after every
\* checkpoint was touched once, the next touch of the first one counts lap 1
\* and leaves subMask at that checkpoint's bit.
LapTrace(n) ==
    /\ (Len(touches) <= n /\ DistinctTouches(Len(touches))) => lapCount = 0
    /\ (/\ Len(touches) = n + 1
        /\ DistinctTouches(n)
        /\ touches[n + 1] = touches[1])
       => (lapCount = 1 /\ subMask = checkpoints[touches[1]])

\* C2 as stated: the trace for any set of checkpoints.
C2_AnyCheckpoints ==
    (loaded /\ Len(checkpoints) >= 1) => LapTrace(Len(checkpoints))

\* C2, amended: the trace for any set of two or more checkpoints.
C2_LapTrace ==
    (loaded /\ Len(checkpoints) >= 2) => LapTrace(Len(checkpoints))

\* Three checkpoints were touched once each and the first one again.
C2_Witness ==
    /\ Len(checkpoints) = 3
    /\ Len(touches) = 4
    /\ DistinctTouches(3)
    /\ touches[4] = touches[1]
    /\ lapCount = 1

\* C3: startFinishBit is the bit of the checkpoint touched first, never
\* changes once it is non-zero, and a lap is only counted by a touch of
\* that checkpoint.
C3_StartFinish ==
    /\ [](startFinishBit = IF touches = <<>> THEN 0 ELSE checkpoints[touches[1]])
    /\ [][startFinishBit # 0 => startFinishBit' = startFinishBit]_vars
    /\ [][lapCount' # lapCount =>
            /\ Len(touches') = Len(touches) + 1
            /\ checkpoints[Last(touches')] = startFinishBit']_vars

\* The car first touched the checkpoint authored second, then the others,
\* and its lap was counted on its return to the second.
C3_Witness ==
    /\ Len(checkpoints) = 3
    /\ Len(touches) >= 4
    /\ touches[1] = 2
    /\ startFinishBit = checkpoints[2]
    /\ lapCount = 1

----------------------------------------------------------------------------
(* GuidanceField::get: mapping.rs *)

MaxFieldDim == 2

\* A world coordinate far beyond any field, in tenths.
FarAway == 2000000000

\* An f32 coordinate is [nan |-> BOOLEAN, v |-> tenths of a world unit].
F32(v) == [nan |-> FALSE, v |-> v]

NaN == [nan |-> TRUE, v |-> 0]

F32Add(a, b) == IF a.nan \/ b.nan THEN NaN ELSE F32(a.v + b.v)

\* Rust's `as u32` on an f32: NaN and negative values give 0, other values
\* are truncated towards zero.  (The cast also saturates at u32::MAX; the
\* coordinates of the model stay below it.)
F32AsU32(a) ==
    IF a.nan \/ a.v < 0 THEN 0
    ELSE a.v \div 10

\* A field is [w, h |-> the image's dimensions in pixels, scale |-> pixels
\* per cell, cells |-> the intensities, row by row from the top].  The
\* pixel in column x of row y:
PixelAt(f, x, y) == f.cells[(y \div f.scale) + 1][(x \div f.scale) + 1]

\* image::GrayImage::get_pixel_checked, with 0 for None.
GetPixelChecked(f, x, y) ==
    IF x < f.w /\ y < f.h
    THEN [fault |-> FALSE, value |-> PixelAt(f, x, y)]
    ELSE [fault |-> FALSE, value |-> 0]

\* image::GrayImage::get_pixel, which panics outside the image.
GetPixelPanicking(f, x, y) ==
    IF x < f.w /\ y < f.h
    THEN [fault |-> FALSE, value |-> PixelAt(f, x, y)]
    ELSE [fault |-> TRUE, value |-> 0]

\* GuidanceField::get on a position [x, y] of f32 coordinates: what it
\* returns, or that it panics (an out-of-range u32 subtraction is a panic).
GuidanceGetUnchecked(f, pos) ==
    LET px == F32Add(F32(f.w * 5), pos.x)
        py == F32Add(F32(f.h * 5), pos.y)
    IN  IF F32AsU32(py) < f.h
        THEN GetPixelPanicking(f, F32AsU32(px), f.h - F32AsU32(py))
        ELSE [fault |-> FALSE, value |-> 0]

GuidanceGet(f, pos) ==
    LET px == F32Add(F32(f.w * 5), pos.x)
        py == F32Add(F32(f.h * 5), pos.y)
    IN  IF F32AsU32(py) < f.h
        THEN LET x == F32AsU32(px)
                 y == f.h - F32AsU32(py)
             IN  IF y < 0 THEN [fault |-> TRUE, value |-> 0]
                 ELSE GetPixelChecked(f, x, y)
        ELSE [fault |-> FALSE, value |-> 0]

\* Intensities an image may hold.
Intensities == {0, 255}

\* The images of the model: every image of up to MaxFieldDim pixels a side.
Fields ==
    UNION {{[w |-> w, h |-> h, scale |-> 1, cells |-> c] :
              c \in [1..h -> [1..w -> Intensities]]} :
           w \in 1..MaxFieldDim, h \in 1..MaxFieldDim}

\* The coordinates queried: around the field in steps of half a world unit,
\* far away on both sides, and NaN.
QueryCoords ==
    {F32(5 * k) : k \in (-2 * MaxFieldDim - 1)..(2 * MaxFieldDim + 1)}
        \cup {F32(-FarAway), F32(FarAway), NaN}

\* A field and a position it is about to be queried at.
FieldStart(f, x, y) ==
    /\ qfield = f
    /\ qpos = [x |-> x, y |-> y]
    /\ qres = [done |-> FALSE, fault |-> FALSE, value |-> 0]

\* The call of GuidanceField::get.
guidance_get ==
    LET r == GuidanceGet(qfield, qpos)
    IN  /\ ~qres.done
        /\ qres' = [done |-> TRUE, fault |-> r.fault, value |-> r.value]
        /\ UNCHANGED <<qfield, qpos>>

----------------------------------------------------------------------------
(* Polygons and moving-vs-moving collisions: physics.rs *)

\* The iterations of a separation loop the model follows before it reports
\* the loop as not ending.
MaxNudges == 150

\* The z component of (l1 - l0) x (p - l0).
CrossZ(l0, l1, p) == (l1.x - l0.x) * (p.y - l0.y) - (l1.y - l0.y) * (p.x - l0.x)

\* same_side: cp1.dot(cp2) >= 0.0, the product taken by its sign.
same_side(p1, p2, l0, l1) ==
    Sign(CrossZ(l0, l1, p1)) * Sign(CrossZ(l0, l1, p2)) >= 0

\* point_in_polygon: every window of three consecutive points, the two
\* wrapping around included.
point_in_polygon(pt, shape) ==
    LET n == Len(shape)
        at(i) == shape[((i - 1) % n) + 1]
    IN  \A i \in 1..n : same_side(pt, at(i), at(i + 1), at(i + 2))

\* Transform::transform_point for a rotation about z (in units of pi/12)
\* and a translation, on a local point in tenths.
transform_point(tf, x, y) ==
    Vec(tf.pos.x + TruncDiv(x * Cos(tf.rot) - y * Sin(tf.rot), 1000),
        tf.pos.y + TruncDiv(x * Sin(tf.rot) + y * Cos(tf.rot), 1000))

\* CollisionBox::from_transform: the octagon of a sprite of size sz (world
\* units) under tf.  A NaN translation makes every point NaN.
from_transform(tf, sz) ==
    LET w == sz.x * 5
        h == sz.y * 5
        c == (Min(w, h) * 2) \div 5
    IN  [nan |-> tf.pos.nan,
         points |-> IF tf.pos.nan THEN <<>>
                    ELSE <<transform_point(tf, c - w, h),
                           transform_point(tf, w - c, h),
                           transform_point(tf, w, h - c),
                           transform_point(tf, w, c - h),
                           transform_point(tf, w - c, -h),
                           transform_point(tf, c - w, -h),
                           transform_point(tf, -w, c - h),
                           transform_point(tf, -w, h - c)>>]

\* CollisionBox::is_touching; every comparison with a NaN is false.
is_touching(a, b) ==
    /\ ~a.nan
    /\ ~b.nan
    /\ \/ \E k \in 1..Len(b.points) : point_in_polygon(b.points[k], a.points)
       \/ \E k \in 1..Len(a.points) : point_in_polygon(a.points[k], b.points)

BoxOf(body) == from_transform(body, body.size)

\* (b2 - a2).normalize() * 0.5, in tenths; the normalisation of a zero
\* vector is NaN.
NudgeOf(a2, b2) ==
    LET d == VecSub(b2, a2)
        len == ISqrt(d.x * d.x + d.y * d.y)
    IN  IF d.nan \/ len = 0 THEN VecNaN
        ELSE Vec(TruncDiv(d.x * 5, len), TruncDiv(d.y * 5, len))

\* The loop `while abox.is_touching(&bbox)`: both bodies step apart until
\* they no longer touch.
RECURSIVE nudge_loop(_, _, _, _)
nudge_loop(a, b, nudge, fuel) ==
    IF ~is_touching(BoxOf(a), BoxOf(b)) THEN [a |-> a, b |-> b, hung |-> FALSE]
    ELSE IF fuel = 0 THEN [a |-> a, b |-> b, hung |-> TRUE]
    ELSE nudge_loop([a EXCEPT !.pos = VecSub(a.pos, nudge)],
                    [b EXCEPT !.pos = VecAdd(b.pos, nudge)],
                    nudge, fuel - 1)

\* The loop body of collision_detection without its separation loop.
resolve_pair_swap_only(a, b) ==
    IF ~(a.atlas /\ b.atlas) THEN [a |-> a, b |-> b, hung |-> FALSE]
    ELSE IF is_touching(BoxOf(a), BoxOf(b))
    THEN [a |-> [a EXCEPT !.vel = b.vel], b |-> [b EXCEPT !.vel = a.vel],
          hung |-> FALSE]
    ELSE [a |-> a, b |-> b, hung |-> FALSE]

\* The loop body of collision_detection giving both bodies the second's
\* velocity.
resolve_pair_copy(a, b) ==
    IF ~(a.atlas /\ b.atlas) THEN [a |-> a, b |-> b, hung |-> FALSE]
    ELSE IF is_touching(BoxOf(a), BoxOf(b))
    THEN nudge_loop([a EXCEPT !.vel = b.vel], b, NudgeOf(a.pos, b.pos), MaxNudges)
    ELSE [a |-> a, b |-> b, hung |-> FALSE]

\* The loop body of collision_detection with the separation loop cut to
\* one step at most.
resolve_pair_once(a, b) ==
    IF ~(a.atlas /\ b.atlas) THEN [a |-> a, b |-> b, hung |-> FALSE]
    ELSE IF is_touching(BoxOf(a), BoxOf(b))
    THEN LET nudge == NudgeOf(a.pos, b.pos)
         IN  [a |-> [a EXCEPT !.vel = b.vel, !.pos = VecSub(a.pos, nudge)],
              b |-> [b EXCEPT !.vel = a.vel, !.pos = VecAdd(b.pos, nudge)],
              hung |-> FALSE]
    ELSE [a |-> a, b |-> b, hung |-> FALSE]

\* The loop body of collision_detection for the pair (a, b): skip a pair
\* without texture atlas, swap the velocities of a touching pair and
\* separate it.
resolve_pair(a, b) ==
    IF ~(a.atlas /\ b.atlas) THEN [a |-> a, b |-> b, hung |-> FALSE]
    ELSE IF is_touching(BoxOf(a), BoxOf(b))
    THEN nudge_loop([a EXCEPT !.vel = b.vel], [b EXCEPT !.vel = a.vel],
                    NudgeOf(a.pos, b.pos), MaxNudges)
    ELSE [a |-> a, b |-> b, hung |-> FALSE]

\* pairs_mut(): the pairs (i, j), i < j, of n colliders in iteration order.
PairsOf(n) ==
    LET RECURSIVE from(_, _)
        from(i, j) ==
            IF i >= n THEN <<>>
            ELSE IF j > n THEN from(i + 1, i + 2)
            ELSE <<<<i, j>>>> \o from(i, j + 1)
    IN  from(1, 2)

NoBody == [pos |-> Vec(0, 0), rot |-> 0, size |-> [x |-> 0, y |-> 0],
           vel |-> Vec(0, 0), atlas |-> FALSE]

NoPair == [i |-> 0, j |-> 0, a |-> NoBody, b |-> NoBody, hung |-> FALSE]

\* Bodies about to be checked for collisions.
ColStart(bs) ==
    /\ bodies = bs
    /\ pairIdx = 0
    /\ lastPair = NoPair
    /\ before = bs

\* One iteration of collision_detection's loop over the pairs.
collide_pair ==
    /\ pairIdx < Len(PairsOf(Len(bodies)))
    /\ ~lastPair.hung
    /\ LET p == PairsOf(Len(bodies))[pairIdx + 1]
           r == resolve_pair(bodies[p[1]], bodies[p[2]])
       IN  /\ bodies' = [bodies EXCEPT ![p[1]] = r.a, ![p[2]] = r.b]
           /\ lastPair' = [i |-> p[1], j |-> p[2], a |-> bodies[p[1]],
                           b |-> bodies[p[2]], hung |-> r.hung]
    /\ pairIdx' = pairIdx + 1
    /\ UNCHANGED before

\* Sprite sizes: a square of side 100 and the cars' 70 x 121.
Sizes == {[x |-> 100, y |-> 100], [x |-> 70, y |-> 121]}

\* Where the second body's centre is, relative to the first's (tenths).
Offsets ==
    {Vec(900, 0), Vec(-900, 0), Vec(1000, 0), Vec(0, 950), Vec(600, 800),
     Vec(300, -400), Vec(0, 0), Vec(1300, 0), Vec(0, -1400)}

Velocities == {Vec(0, 0), Vec(200, 0), Vec(-100, 300)}

\* Two bodies, the first at the origin.
Scenes ==
    {<<[pos |-> Vec(0, 0), rot |-> 0, size |-> sa, vel |-> va, atlas |-> TRUE],
       [pos |-> off, rot |-> rb, size |-> sb, vel |-> vb, atlas |-> tb]>> :
        sa \in Sizes, sb \in Sizes, va \in Velocities, vb \in Velocities,
        off \in Offsets, rb \in {0, 6}, tb \in BOOLEAN}

\* Three squares of side 100 in the order of the query: one beside a
\* touching pair, a row whose first pair pushes its second body into the
\* third, three bodies far apart, and a touching pair with a far third.
Trios ==
    {<<[pos |-> Vec(0, 0), rot |-> 0, size |-> [x |-> 100, y |-> 100],
        vel |-> Vec(200, 0), atlas |-> TRUE],
       [pos |-> t[1], rot |-> 0, size |-> [x |-> 100, y |-> 100],
        vel |-> Vec(0, 0), atlas |-> TRUE],
       [pos |-> t[2], rot |-> 0, size |-> [x |-> 100, y |-> 100],
        vel |-> Vec(-100, 300), atlas |-> TRUE]>> :
        t \in {<<Vec(-1050, 0), Vec(500, 0)>>, <<Vec(900, 0), Vec(1940, 0)>>,
               <<Vec(0, 3000), Vec(3000, 0)>>, <<Vec(900, 0), Vec(0, 3000)>>}}

----------------------------------------------------------------------------
(* Moving-vs-fixed collisions: physics.rs *)

\* The iterations of a push-out loop the model follows before it reports
\* the loop as not ending.
MaxPushes == 500

\* The points of a collider, before the obstacle's transform.
ColliderPoints(collider) ==
    IF collider = "Tree"
    THEN <<Vec(-250, 500), Vec(250, 500), Vec(500, 250), Vec(500, -250),
           Vec(250, -500), Vec(-250, -500), Vec(-500, -250), Vec(-500, 250)>>
    ELSE <<Vec(-2240, 1120), Vec(0, 1120), Vec(2240, 1120), Vec(2240, 0),
           Vec(2240, -1120), Vec(0, -1120), Vec(-2240, -1120), Vec(-2240, 0)>>

\* obj_box: the collider's points under the obstacle's transform.
obj_box(obj) ==
    [nan |-> obj.pos.nan,
     points |-> IF obj.pos.nan THEN <<>>
                ELSE [k \in 1..8 |->
                        transform_point(obj, ColliderPoints(obj.collider)[k].x,
                                        ColliderPoints(obj.collider)[k].y)]]

\* length_of_line, in tenths.
length_of_line(l0, l1) ==
    ISqrt((l1.x - l0.x) * (l1.x - l0.x) + (l1.y - l0.y) * (l1.y - l0.y))

\* Twice area_of_triangle.
area_of_triangle2(p, l0, l1) ==
    Abs((p.x - l1.x) * (l0.y - p.y) - (p.x - l0.x) * (l1.y - p.y))

\* distance_to_line, in hundredths.
distance_to_line(pt, l0, l1) ==
    (area_of_triangle2(pt, l0, l1) * 10) \div length_of_line(l0, l1)

\* The k-th edge of a shape, the last one closing it.
EdgeOf(shape, k) == <<shape[k], shape[(k % Len(shape)) + 1]>>

\* closest_edge_to_point: the first of the edges at the least distance.
closest_edge_to_point(pt, shape) ==
    LET d(k) == distance_to_line(pt, EdgeOf(shape, k)[1], EdgeOf(shape, k)[2])
        best == CHOOSE k \in 1..Len(shape) :
                    /\ \A j \in 1..Len(shape) : d(k) <= d(j)
                    /\ \A j \in 1..(k - 1) : d(j) > d(k)
    IN  EdgeOf(shape, best)

\* reflect_against_line with the line's direction in the place of its
\* normal.
reflect_against_normal(v, l0, l1) ==
    LET nx == TruncDiv(l1.x - l0.x, 10)
        ny == TruncDiv(l1.y - l0.y, 10)
        nn == nx * nx + ny * ny
        dot == v.x * nx + v.y * ny
    IN  IF v.nan \/ nn = 0 THEN VecNaN
        ELSE Vec(v.x - TruncDiv(2 * dot * nx, nn), v.y - TruncDiv(2 * dot * ny, nn))

\* reflect_against_line: v - 2 (v . n) n for the unit normal n of the line;
\* the normal of a line without length is NaN.
reflect_against_line(v, l0, l1) ==
    LET nx == TruncDiv(-(l1.y - l0.y), 10)
        ny == TruncDiv(l1.x - l0.x, 10)
        nn == nx * nx + ny * ny
        dot == v.x * nx + v.y * ny
    IN  IF v.nan \/ nn = 0 THEN VecNaN
        ELSE Vec(v.x - TruncDiv(2 * dot * nx, nn), v.y - TruncDiv(2 * dot * ny, nn))

\* car_vel.0.normalize(), a step of one world unit.
UnitStep(v) ==
    LET len == ISqrt(v.x * v.x + v.y * v.y)
    IN  IF v.nan \/ len = 0 THEN VecNaN
        ELSE Vec(TruncDiv(v.x * 10, len), TruncDiv(v.y * 10, len))

\* The first of a non-empty set of indices.
First(ks) == CHOOSE k \in ks : \A j \in ks : k <= j

\* The car after n steps along its velocity.
StepsAlong(car, n) ==
    IF n = 0 THEN car
    ELSE IF car.pos.nan \/ UnitStep(car.vel).nan THEN [car EXCEPT !.pos = VecNaN]
    ELSE [car EXCEPT !.pos = Vec(car.pos.x + n * UnitStep(car.vel).x,
                                 car.pos.y + n * UnitStep(car.vel).y)]

\* The loop `while car_box.is_touching(&obj_box)`: the car steps along its
\* velocity until it no longer touches the obstacle, which is after the
\* least number of steps that leaves it clear.
push_loop(car, ob, fuel) ==
    LET clear == {n \in 0..fuel : ~is_touching(BoxOf(StepsAlong(car, n)), ob)}
    IN  IF clear = {} THEN [car |-> StepsAlong(car, fuel), hung |-> TRUE]
        ELSE [car |-> StepsAlong(car, First(clear)), hung |-> FALSE]

\* The vertices of box a that lie inside box b.
VerticesIn(a, b) ==
    IF a.nan \/ b.nan THEN {}
    ELSE {k \in 1..Len(a.points) : point_in_polygon(a.points[k], b.points)}

\* The body of fixed_collision_detection's loops with the velocity negated
\* in both branches.
fixed_pair_negate(car, obj) ==
    LET cb == BoxOf(car)
        ob == obj_box(obj)
    IN  IF ~car.atlas THEN [car |-> car, hung |-> FALSE]
        ELSE IF VerticesIn(cb, ob) # {} \/ VerticesIn(ob, cb) # {}
        THEN push_loop([car EXCEPT !.vel = Vec(-car.vel.x, -car.vel.y)], ob, MaxPushes)
        ELSE [car |-> car, hung |-> FALSE]

\* The body of fixed_collision_detection's loops, for one car and one
\* obstacle.
fixed_pair(car, obj) ==
    LET cb == BoxOf(car)
        ob == obj_box(obj)
    IN  IF ~car.atlas THEN [car |-> car, hung |-> FALSE]
        ELSE IF VerticesIn(cb, ob) # {}
        THEN LET pt == cb.points[First(VerticesIn(cb, ob))]
                 line == closest_edge_to_point(pt, ob.points)
             IN  push_loop([car EXCEPT !.vel = reflect_against_line(@, line[1], line[2])],
                           ob, MaxPushes)
        ELSE IF VerticesIn(ob, cb) # {}
        THEN push_loop([car EXCEPT !.vel = Vec(-car.vel.x, -car.vel.y)], ob, MaxPushes)
        ELSE [car |-> car, hung |-> FALSE]

----------------------------------------------------------------------------
(* The racers and the systems of one tick: main.rs *)

\* Lengths are in tenths of a world unit, speeds in tenths per second,
\* times and penalties in thousandths (of a second, of a tile), tile
\* coordinates in thousandths of a tile, angles in units of pi/12.

PI == 12

\* What time.delta_seconds() can be, in milliseconds.
Deltas == {87, 175}

\* delta * 3.0 radians, to the nearest unit of pi/12.
AngleStep(delta) == (36 * delta + 1571) \div 3142

\* The keys that can be held down during a run.
KeySets == {{}, {"X"}, {"Z", "Shift"}}

\* The tiled map of the level: tiles 128 world units wide and 2 high, every
\* cell of the rows 1..height-2 of the track layer holding a tile.
TrackMap == [width |-> 24, height |-> 8, tile_width |-> 128, tile_height |-> 2]

\* layer.get_tile(x, y).is_some()
get_tile(map, x, y) ==
    /\ x >= 0 /\ x < map.width
    /\ y >= 0 /\ y < map.height
    /\ y >= 1 /\ y <= map.height - 2

\* Option<Vec2>
None == [some |-> FALSE, x |-> 0, y |-> 0]

Some(x, y) == [some |-> TRUE, x |-> x, y |-> y]

\* Angle::normalize
RECURSIVE normalize(_)
normalize(a) ==
    IF a > PI THEN normalize(a - 2 * PI)
    ELSE IF a < -PI THEN normalize(a + 2 * PI)
    ELSE a

\* Angle::to_quat: a rotation about z by the angle less a quarter turn.
to_quat(a) == a - (PI \div 2)

\* k * Vec2::from_angle(a) for a length k in tenths.
from_angle(k, a) == Vec(TruncDiv(k * Cos(a), 1000), TruncDiv(k * Sin(a), 1000))

\* spawn_player and spawn_ai_players
Racer(player, x, angle) ==
    [player |-> player, pos |-> Vec(x, 0), rot |-> 0,
     size |-> [x |-> 70, y |-> 121], vel |-> Vec(0, 200), atlas |-> TRUE,
     angle |-> angle, penalty |-> 0, last_tile |-> None]

spawn_player == Racer(TRUE, -10000, 0)

spawn_ai_players == <<Racer(FALSE, 0, 1), Racer(FALSE, -3333, 1), Racer(FALSE, -6666, 1)>>

\* GuidanceField::from_map: one pixel in 128 x 128 per cell of the layer,
\* 255 where the cell holds a tile.  The model leaves the blur out.
from_map(map) ==
    [w |-> map.width * 128, h |-> map.height * 128, scale |-> 128,
     cells |-> [y \in 1..map.height |->
                  [x \in 1..map.width |->
                     IF get_tile(map, x - 1, y - 1) THEN 255 ELSE 0]]]

\* guide.get(&pos) on the field of the level.
guide_get(pos) ==
    GuidanceGet(from_map(TrackMap),
                [x |-> IF pos.nan THEN NaN ELSE F32(pos.x),
                 y |-> IF pos.nan THEN NaN ELSE F32(pos.y)]).value

\* The racer's decaying penalty, common to both steering systems.
decay(r, delta) ==
    [r EXCEPT !.penalty = IF r.penalty < delta THEN 0 ELSE r.penalty - delta]

\* handle_keyboard, for the racer that is the player.
keyboard_racer(r, input, delta) ==
    IF r.penalty > 0 THEN decay(r, delta)
    ELSE LET a1 == r.angle + (IF "Z" \in input THEN AngleStep(delta) ELSE 0)
                           - (IF "X" \in input THEN AngleStep(delta) ELSE 0)
             v1 == IF "Shift" \in input
                   THEN VecAdd(r.vel, from_angle((delta * 580) \div 100, a1))
                   ELSE r.vel
         IN  [r EXCEPT !.angle = normalize(a1), !.vel = v1,
                       !.rot = to_quat(normalize(a1))]

\* What the five whiskers of a racer read on the field of the level.
whiskers(r) ==
    [left |-> guide_get(VecAdd(r.pos, from_angle(4250, r.angle + 1))),
     right |-> guide_get(VecAdd(r.pos, from_angle(4250, r.angle - 1))),
     left2 |-> guide_get(VecAdd(r.pos, from_angle(2000, r.angle + 2))),
     right2 |-> guide_get(VecAdd(r.pos, from_angle(2000, r.angle - 2))),
     front |-> guide_get(VecAdd(r.pos, from_angle(4250, r.angle)))]

\* The steering of handle_ai_players with the turn to the right tried only
\* when the racer does not turn left.
ai_steer_else(r, delta, px) ==
    LET left == (px.left - 10 > px.right) \/ (px.left2 - 10 > px.right2)
        a1 == r.angle
              + (IF left THEN AngleStep(delta) ELSE 0)
              - (IF ~left /\ ((px.right - 10 > px.left) \/ (px.right2 - 10 > px.left2))
                 THEN AngleStep(delta) ELSE 0)
        v1 == IF px.front > 50
              THEN VecAdd(r.vel, from_angle((delta * 600) \div 100, a1))
              ELSE r.vel
    IN  [r EXCEPT !.angle = normalize(a1), !.vel = v1,
                  !.rot = to_quat(normalize(a1))]

\* The steering of handle_ai_players for a racer without penalty whose
\* whiskers read px.
ai_steer(r, delta, px) ==
    LET a1 == r.angle
              + (IF (px.left - 10 > px.right) \/ (px.left2 - 10 > px.right2)
                 THEN AngleStep(delta) ELSE 0)
              - (IF (px.right - 10 > px.left) \/ (px.right2 - 10 > px.left2)
                 THEN AngleStep(delta) ELSE 0)
        v1 == IF px.front > 50
              THEN VecAdd(r.vel, from_angle((delta * 600) \div 100, a1))
              ELSE r.vel
    IN  [r EXCEPT !.angle = normalize(a1), !.vel = v1,
                  !.rot = to_quat(normalize(a1))]

\* The loop body of handle_ai_players, for a racer that is not the player.
ai_racer(r, delta) ==
    IF r.penalty > 0 THEN decay(r, delta)
    ELSE ai_steer(r, delta, whiskers(r))

\* v *= 1.0 - delta * factor, the factor in ten-thousandths per millisecond.
Slowed(v, delta, factor) ==
    IF v.nan THEN v
    ELSE Vec(TruncDiv(v.x * (10000 - delta * factor), 10000),
             TruncDiv(v.y * (10000 - delta * factor), 10000))

\* delta * factor for factor = 1.2 + 1.2 * (1.0 - pixel / 140.0), in units
\* of 1/140000.
ExtraDrag(delta, pixel) == (delta * 12 * (280 - pixel)) \div 10

\* v *= 1.0 - drag, the drag in units of 1/140000.
Dragged(v, drag) ==
    IF v.nan THEN v
    ELSE Vec(TruncDiv(v.x * (140000 - drag), 140000),
             TruncDiv(v.y * (140000 - drag), 140000))

\* The loop body of apply_friction with the extra drag applied up to and
\* including the intensity 140.
friction_body_to_140(r, delta, g, pixel) ==
    LET v1 == Slowed(r.vel, delta, 12)
    IN  [r EXCEPT !.vel = IF g /\ pixel <= 140
                          THEN Dragged(v1, ExtraDrag(delta, pixel))
                          ELSE v1]

\* The loop body of apply_friction; g tells whether there is a
\* GuidanceField and pixel is what guide.get returns at the body.
friction_body(r, delta, g, pixel) ==
    LET v1 == Slowed(r.vel, delta, 12)
    IN  [r EXCEPT !.vel = IF g /\ pixel < 140
                          THEN Dragged(v1, ExtraDrag(delta, pixel))
                          ELSE v1]

friction_racer(r, delta, g) == friction_body(r, delta, g, guide_get(r.pos))

\* The loop body of apply_velocity.
velocity_racer(r, delta) ==
    [r EXCEPT !.pos = IF r.pos.nan \/ r.vel.nan THEN VecNaN
                      ELSE Vec(r.pos.x + TruncDiv(delta * r.vel.x, 1000),
                               r.pos.y + TruncDiv(delta * r.vel.y, 1000))]

\* The tile coordinates of a translation, in thousandths of a tile.
TileX(map, pos) == TruncDiv(pos.x * 100, map.tile_width) + map.width * 500

TileY(map, pos) == TruncDiv(-pos.y * 100, map.tile_height) + map.height * 500

\* `as i32` on a tile coordinate.
AsCell(c) == TruncDiv(c, 1000)

\* now.distance(prev).abs()
Distance(x1, y1, x2, y2) == ISqrt((x1 - x2) * (x1 - x2) + (y1 - y2) * (y1 - y2))

\* The loop body of apply_time_penalties with the cells of the samples
\* compared in place of the samples.
penalty_racer_cells(r, map) ==
    LET x == TileX(map, r.pos)
        y == TileY(map, r.pos)
    IN  IF r.pos.nan \/ ~get_tile(map, AsCell(x), AsCell(y)) THEN r
        ELSE LET delta == IF r.last_tile.some
                          THEN Distance(AsCell(x) * 1000, AsCell(y) * 1000,
                                        AsCell(r.last_tile.x) * 1000,
                                        AsCell(r.last_tile.y) * 1000)
                          ELSE 0
             IN  [r EXCEPT !.penalty = IF delta > 1000 THEN @ + delta ELSE @,
                           !.last_tile = Some(x, y)]

\* The loop body of apply_time_penalties.
penalty_racer(r, map) ==
    LET x == TileX(map, r.pos)
        y == TileY(map, r.pos)
    IN  IF r.pos.nan \/ ~get_tile(map, AsCell(x), AsCell(y)) THEN r
        ELSE LET delta == IF r.last_tile.some
                          THEN Distance(x, y, r.last_tile.x, r.last_tile.y)
                          ELSE 0
             IN  [r EXCEPT !.penalty = IF delta > 1000 THEN @ + delta ELSE @,
                           !.last_tile = Some(x, y)]

\* collision_detection over the pairs from the k-th on.
RECURSIVE collide_from(_, _)
collide_from(bs, k) ==
    IF k > Len(PairsOf(Len(bs))) THEN [bs |-> bs, hung |-> FALSE]
    ELSE LET p == PairsOf(Len(bs))[k]
             r == resolve_pair(bs[p[1]], bs[p[2]])
         IN  IF r.hung THEN [bs |-> bs, hung |-> TRUE]
             ELSE collide_from([bs EXCEPT ![p[1]] = r.a, ![p[2]] = r.b], k + 1)

MaxTicks == 3

\* The systems of the Update schedule.
Systems ==
    {"generate_guidance_field", "handle_keyboard", "handle_ai_players",
     "apply_velocity", "apply_friction", "track_player",
     "collision_detection", "apply_time_penalties"}

\* The systems each system is scheduled `.after`.
After(s) ==
    CASE s = "apply_velocity" -> {"handle_ai_players", "handle_keyboard"}
      [] s = "apply_friction" -> {"apply_velocity"}
      [] s = "track_player" -> {"apply_velocity"}
      [] s = "collision_detection" ->
             {"apply_velocity", "handle_keyboard", "handle_ai_players"}
      [] OTHER -> {}

\* The executor runs s, once per tick, when the systems before it have run.
Run(s) ==
    /\ inTick
    /\ ~panicked
    /\ s \notin ran
    /\ After(s) \subseteq ran
    /\ ran' = ran \cup {s}
    /\ UNCHANGED <<keys, dt, tick, inTick, penalty0>>

\* The state after the Startup schedule, with the keys held down and the
\* frame time of the run.
TickStartWith(cs, k, d) ==
    /\ cars = cs
    /\ camera = Vec(0, 0)
    /\ maps = FALSE
    /\ added = "none"
    /\ guide = FALSE
    /\ inserts = FALSE
    /\ keys = k
    /\ dt = d
    /\ tick = 0
    /\ inTick = FALSE
    /\ ran = {}
    /\ penalty0 = [c \in 1..Len(cs) |-> 0]
    /\ skipped = [c \in 1..Len(cs) |-> FALSE]
    /\ panicked = FALSE

TickStart(k, d) == TickStartWith(<<spawn_player>> \o spawn_ai_players, k, d)

\* The asset server has loaded the level's map: it is in Assets<TiledMap>
\* and its Added event is queued.
load_maps ==
    /\ ~inTick
    /\ ~panicked
    /\ ~maps
    /\ maps' = TRUE
    /\ added' = "queued"
    /\ UNCHANGED <<cars, camera, guide, inserts, keys, dt, tick, inTick, ran,
                   penalty0, skipped, panicked>>

\* The queued Added event is sent to the event readers.
asset_events ==
    /\ ~inTick
    /\ ~panicked
    /\ added = "queued"
    /\ added' = "sent"
    /\ UNCHANGED <<cars, camera, maps, guide, inserts, keys, dt, tick, inTick,
                   ran, penalty0, skipped, panicked>>

\* A frame begins.
begin_tick ==
    /\ ~inTick
    /\ ~panicked
    /\ tick < MaxTicks
    /\ inTick' = TRUE
    /\ tick' = tick + 1
    /\ ran' = {}
    /\ penalty0' = [c \in 1..Len(cars) |-> cars[c].penalty]
    /\ skipped' = [c \in 1..Len(cars) |-> FALSE]
    /\ UNCHANGED <<worldVars, keys, dt, panicked>>

\* The Update schedule is over: the commands of its systems are applied.
end_tick ==
    /\ inTick
    /\ ~panicked
    /\ ran = Systems
    /\ inTick' = FALSE
    /\ guide' = (guide \/ inserts)
    /\ inserts' = FALSE
    /\ UNCHANGED <<cars, camera, maps, added, keys, dt, tick, ran, penalty0,
                   skipped, panicked>>

\* generate_guidance_field putting the field in place itself, in the middle
\* of the tick.
generate_guidance_field_at_once ==
    /\ Run("generate_guidance_field")
    /\ added' = IF added = "sent" THEN "read" ELSE added
    /\ guide' = (guide \/ (added = "sent" /\ maps))
    /\ UNCHANGED <<cars, camera, maps, inserts, skipped, panicked>>

\* generate_guidance_field: the field of a map whose Added event is read is
\* handed to Commands::insert_resource.
generate_guidance_field ==
    /\ Run("generate_guidance_field")
    /\ added' = IF added = "sent" THEN "read" ELSE added
    /\ inserts' = (inserts \/ (added = "sent" /\ maps))
    /\ UNCHANGED <<cars, camera, maps, guide, skipped, panicked>>

\* The racers a query With<Player> matches.
Players == {c \in 1..Len(cars) : cars[c].player}

\* Query::single and Query::single_mut panic unless exactly one entity
\* matches.
Single(q) == Cardinality(q) = 1

handle_keyboard ==
    /\ Run("handle_keyboard")
    /\ panicked' = ~Single(Players)
    /\ cars' = IF ~Single(Players) THEN cars
               ELSE [c \in 1..Len(cars) |->
                       IF cars[c].player THEN keyboard_racer(cars[c], keys, dt)
                       ELSE cars[c]]
    /\ UNCHANGED <<camera, maps, added, guide, inserts, skipped>>

\* handle_ai_players without its test for a missing GuidanceField.
handle_ai_players_unguarded ==
    /\ Run("handle_ai_players")
    /\ cars' = [c \in 1..Len(cars) |->
                  IF cars[c].player THEN cars[c] ELSE ai_racer(cars[c], dt)]
    /\ UNCHANGED <<camera, maps, added, guide, inserts, skipped, panicked>>

handle_ai_players ==
    /\ Run("handle_ai_players")
    /\ cars' = IF ~guide THEN cars
               ELSE [c \in 1..Len(cars) |->
                       IF cars[c].player THEN cars[c] ELSE ai_racer(cars[c], dt)]
    /\ UNCHANGED <<camera, maps, added, guide, inserts, skipped, panicked>>

apply_velocity ==
    /\ Run("apply_velocity")
    /\ cars' = [c \in 1..Len(cars) |-> velocity_racer(cars[c], dt)]
    /\ UNCHANGED <<camera, maps, added, guide, inserts, skipped, panicked>>

apply_friction ==
    /\ Run("apply_friction")
    /\ cars' = [c \in 1..Len(cars) |-> friction_racer(cars[c], dt, guide)]
    /\ UNCHANGED <<camera, maps, added, guide, inserts, skipped, panicked>>

track_player ==
    /\ Run("track_player")
    /\ panicked' = ~Single(Players)
    /\ camera' = IF ~Single(Players) THEN camera
                 ELSE cars[CHOOSE c \in Players : TRUE].pos
    /\ UNCHANGED <<cars, maps, added, guide, inserts, skipped>>

collision_detection ==
    /\ Run("collision_detection")
    /\ ~collide_from(cars, 1).hung
    /\ cars' = collide_from(cars, 1).bs
    /\ UNCHANGED <<camera, maps, added, guide, inserts, skipped, panicked>>

apply_time_penalties ==
    /\ Run("apply_time_penalties")
    /\ cars' = IF ~maps THEN cars
               ELSE [c \in 1..Len(cars) |-> penalty_racer(cars[c], TrackMap)]
    /\ skipped' = [c \in 1..Len(cars) |-> cars'[c].penalty # cars[c].penalty]
    /\ UNCHANGED <<camera, maps, added, guide, inserts, panicked>>

----------------------------------------------------------------------------
(* Debug visualisation: main.rs, physics.rs *)

\* Args::debug_low and Args::debug_high.
debug_low(debug) == debug >= 1

debug_high(debug) == debug >= 2

\* CollisionBox::draw: one line per point of the box, the box only read.
draw(box, gizmos) == [box |-> box, gizmos |-> gizmos + 8]

\* The loop body of collision_detection where a pair that is drawn is not
\* resolved.
collision_pair_drawn_only(debug, a, b, gizmos) ==
    IF ~(a.atlas /\ b.atlas)
    THEN [a |-> a, b |-> b, hung |-> FALSE, gizmos |-> gizmos]
    ELSE IF debug_low(debug)
    THEN [a |-> a, b |-> b, hung |-> FALSE,
          gizmos |-> draw(BoxOf(b), draw(BoxOf(a), gizmos).gizmos).gizmos]
    ELSE LET r == resolve_pair(a, b)
         IN  [a |-> r.a, b |-> r.b, hung |-> r.hung, gizmos |-> gizmos]

\* The loop body of collision_detection with its debug drawing: under
\* debug_low both boxes are drawn before the pair is tested.
collision_pair(debug, a, b, gizmos) ==
    IF ~(a.atlas /\ b.atlas)
    THEN [a |-> a, b |-> b, hung |-> FALSE, gizmos |-> gizmos]
    ELSE LET g == IF debug_low(debug)
                  THEN draw(BoxOf(b), draw(BoxOf(a), gizmos).gizmos).gizmos
                  ELSE gizmos
             r == resolve_pair(a, b)
         IN  [a |-> r.a, b |-> r.b, hung |-> r.hung, gizmos |-> g]

\* The loop body of handle_ai_players with its debug drawing: under
\* debug_high a circle and a line are drawn for each of the five whiskers
\* before the racer steers.
ai_player(debug, r, delta, gizmos) ==
    IF r.penalty > 0 THEN [r |-> decay(r, delta), gizmos |-> gizmos]
    ELSE [r |-> ai_steer(r, delta, whiskers(r)),
          gizmos |-> IF debug_high(debug) THEN gizmos + 10 ELSE gizmos]

----------------------------------------------------------------------------
(* Racers spawned from the level's objects: objectmap.rs *)

\* The racer spawn_object makes of the k-th car object, an object without
\* rotation: Angle((90.0 - obj.rotation) * PI / 4.0), no velocity, no
\* rotation.  The car objects are 333.3 world units apart.
LevelRacer(name, k) ==
    [Racer(name = "Human", -3333 * (k - 1), 270) EXCEPT !.vel = Vec(0, 0)]

\* The racers among the entities es, in spawn order, the first being the
\* k-th car.
RECURSIVE LevelRacers(_, _)
LevelRacers(es, k) ==
    IF es = <<>> THEN <<>>
    ELSE IF Head(es).name \in {"Human", "AI"}
         THEN <<LevelRacer(Head(es).name, k)>> \o LevelRacers(Tail(es), k + 1)
         ELSE LevelRacers(Tail(es), k)

\* The object layers of the levels: up to two cars.
LevelSeqs == UNION {[1..n -> {"car_red", "car_blue"}] : n \in 0..2}

\* handle_map_events in a run of the game: the objects of the loaded map
\* are spawned, and exist when the next frame begins.
spawn_level ==
    /\ ~inTick
    /\ ~panicked
    /\ maps
    /\ handle_map_events
    /\ cars' = cars \o LevelRacers(entities', Len(cars) + 1)
    /\ UNCHANGED <<camera, maps, added, guide, inserts, keys, dt, tick, inTick,
                   ran, penalty0, skipped, panicked>>

----------------------------------------------------------------------------
(* Single calls of the program's functions *)

\* A function about to be called on the arguments of c.
CallStart(c) ==
    /\ call = c
    /\ ret = [done |-> FALSE]

\* The angles normalize is called on lie within MaxAngle units of pi/12
\* of zero.
MaxAngle == 40

NormalizeCalls == {[fn |-> "normalize", a |-> a] : a \in -MaxAngle..MaxAngle}

\* Angle::normalize
normalize_call ==
    /\ call.fn = "normalize"
    /\ ~ret.done
    /\ ret' = [done |-> TRUE, a |-> normalize(call.a)]
    /\ UNCHANGED call

\* The velocities, frame times and guidance intensities apply_friction is
\* called on.
FrictionVels == {Vec(1000, 0), Vec(0, 200), Vec(-300, 400)}

CallDeltas == {87, 100, 175}

Pixels == {0, 70, 139, 140, 255}

FrictionCalls ==
    {[fn |-> "friction", r |-> [Racer(FALSE, 0, 1) EXCEPT !.vel = v],
      delta |-> d, g |-> g, pixel |-> i] :
        v \in FrictionVels, d \in CallDeltas, g \in BOOLEAN, i \in Pixels}

\* The loop body of apply_friction, for one body.
friction_call ==
    /\ call.fn = "friction"
    /\ ~ret.done
    /\ ret' = [done |-> TRUE,
               r |-> friction_body(call.r, call.delta, call.g, call.pixel)]
    /\ UNCHANGED call

\* The whisker readings, about the margin of 10 and the threshold of 50,
\* and the angles handle_ai_players steers from.
Readings == {100, 110, 111}

FrontReadings == {50, 51}

SteerAngles == {0, 11, 12, -12}

SteerCalls ==
    {[fn |-> "steer", r |-> Racer(FALSE, 0, a), delta |-> d,
      px |-> [left |-> l, right |-> r, left2 |-> l2, right2 |-> r2, front |-> f]] :
        a \in SteerAngles, d \in Deltas, l \in Readings, r \in Readings,
        l2 \in Readings, r2 \in Readings, f \in FrontReadings}

\* The steering of handle_ai_players, for one racer.
steer_call ==
    /\ call.fn = "steer"
    /\ ~ret.done
    /\ ret' = [done |-> TRUE, r |-> ai_steer(call.r, call.delta, call.px)]
    /\ UNCHANGED call

\* A car against a tree or a block at the origin: cars that come from below
\* or from the left with a vertex inside the obstacle, cars that hold a
\* vertex of the obstacle, and cars clear of it.
CarOffsets ==
    {Vec(0, -1000), Vec(300, -1000), Vec(-800, 0), Vec(0, -1650), Vec(-2500, 300),
     Vec(-2600, -1500), Vec(0, -3000)}

CarVelocities == {Vec(0, 200), Vec(200, 100), Vec(-100, 300), Vec(200, 0)}

FixedCalls ==
    {[fn |-> "fixed",
      car |-> [pos |-> off, rot |-> cr, size |-> [x |-> 70, y |-> 121],
               vel |-> v, atlas |-> TRUE],
      obj |-> [pos |-> Vec(0, 0), rot |-> 0, collider |-> c]] :
        off \in CarOffsets, v \in CarVelocities, cr \in {0, 6},
        c \in {"Tree", "Block"}}

\* The body of fixed_collision_detection's loops, for one car and one
\* obstacle.
fixed_call ==
    /\ call.fn = "fixed"
    /\ ~ret.done
    /\ LET r == fixed_pair(call.car, call.obj)
       IN  ret' = [done |-> TRUE, car |-> r.car, obj |-> call.obj, hung |-> r.hung]
    /\ UNCHANGED call

\* The verbosity levels of the debug visualisation the claims are about.
DebugLevels == 0..2

\* Pairs of cars, apart, touching and on top of each other, under every
\* debug level.
DebugPairCalls ==
    {[fn |-> "collide_debug", debug |-> d, a |-> s[1], b |-> s[2]] :
        d \in DebugLevels,
        s \in {t \in Scenes : t[1].size.x = 70 /\ t[2].size.x = 70}}

\* The loop body of collision_detection, for one pair.
collide_debug_call ==
    /\ call.fn = "collide_debug"
    /\ ~ret.done
    /\ LET o == collision_pair(call.debug, call.a, call.b, 0)
       IN  ret' = [done |-> TRUE, a |-> o.a, b |-> o.b, hung |-> o.hung,
                   gizmos |-> o.gizmos]
    /\ UNCHANGED call

\* AI racers on and off the track, with and without a penalty, under
\* every debug level.
DebugAiCalls ==
    {[fn |-> "ai_debug", debug |-> d, delta |-> dl,
      r |-> [Racer(FALSE, x, a) EXCEPT !.penalty = p, !.pos.y = y]] :
        d \in DebugLevels, dl \in Deltas, x \in {0, -3333, 1500},
        y \in {0, 300, 900}, a \in {0, 1, 5, -7}, p \in {0, 100}}

\* The loop body of handle_ai_players, for one racer.
ai_debug_call ==
    /\ call.fn = "ai_debug"
    /\ ~ret.done
    /\ LET o == ai_player(call.debug, call.r, call.delta, 0)
       IN  ret' = [done |-> TRUE, r |-> o.r, gizmos |-> o.gizmos]
    /\ UNCHANGED call

Calls ==
    NormalizeCalls \cup FrictionCalls \cup SteerCalls \cup FixedCalls
        \cup DebugPairCalls \cup DebugAiCalls

----------------------------------------------------------------------------
(* Polygons: geometry.rs *)

\* A polygon that a failed assert! never produced.
Aborted == [abort |-> TRUE, shape |-> <<>>]

Made(shape) == [abort |-> FALSE, shape |-> shape]

\* Polygon::from_vec: the rectangle of size sz (world units) about the
\* origin, in tenths.
from_vec(sz) ==
    IF ~(sz.x > 0 /\ sz.y > 0) THEN Aborted
    ELSE LET w == sz.x * 5
             h == sz.y * 5
         IN  Made(<<Vec(-w, h), Vec(w, h), Vec(w, -h), Vec(-w, -h)>>)

\* c = m - (0.01 * m * percent), in tenths.
Rounding(m, percent) == m - TruncDiv(m * percent, 100)

\* Polygon::from_vec_with_rounding with the corners cut by percent of m.
from_vec_with_rounding_cut(sz, percent) ==
    IF ~(sz.x > 0 /\ sz.y > 0) THEN Aborted
    ELSE IF ~(percent > 0 /\ percent < 100) THEN Aborted
    ELSE LET w == sz.x * 5
             h == sz.y * 5
             c == TruncDiv(Min(w, h) * percent, 100)
         IN  Made(<<Vec(c - w, h), Vec(w - c, h), Vec(w, h - c), Vec(w, c - h),
                    Vec(w - c, -h), Vec(c - w, -h), Vec(-w, c - h), Vec(-w, h - c)>>)

\* Polygon::from_vec_with_rounding
from_vec_with_rounding(sz, percent) ==
    IF ~(sz.x > 0 /\ sz.y > 0) THEN Aborted
    ELSE IF ~(percent > 0 /\ percent < 100) THEN Aborted
    ELSE LET w == sz.x * 5
             h == sz.y * 5
             c == Rounding(Min(w, h), percent)
         IN  Made(<<Vec(c - w, h), Vec(w - c, h), Vec(w, h - c), Vec(w, c - h),
                    Vec(w - c, -h), Vec(c - w, -h), Vec(-w, c - h), Vec(-w, h - c)>>)

\* Polygon::transform: every point through tf.transform_point.
polygon_transform(shape, tf) ==
    [k \in 1..Len(shape) |-> transform_point(tf, shape[k].x, shape[k].y)]

\* Polygon::iter_segments: the k-th window of three consecutive points of
\* the shape chained with its first two points.
SegmentOf(shape, k) ==
    <<shape[k], shape[(k % Len(shape)) + 1], shape[((k + 1) % Len(shape)) + 1]>>

\* Polygon::contains_point: pt is on the side of a of the line (b, c), for
\* every segment (a, b, c).
contains_point(shape, pt) ==
    \A k \in 1..Len(shape) :
        same_side(pt, SegmentOf(shape, k)[1], SegmentOf(shape, k)[2],
                  SegmentOf(shape, k)[3])

\* Polygon::is_touching looking only for points of the other polygon.
polygon_is_touching_one_way(a, b) ==
    \E k \in 1..Len(b) : contains_point(a, b[k])

\* Polygon::is_touching
polygon_is_touching(a, b) ==
    \/ \E k \in 1..Len(b) : contains_point(a, b[k])
    \/ \E k \in 1..Len(a) : contains_point(b, a[k])

\* The sizes and roundings of the polygons of the calls: the long bar with
\* which two polygons can cross, a wide one and a square.
PolySizes == {[x |-> 40, y |-> 200], [x |-> 100, y |-> 60], [x |-> 80, y |-> 80]}

PolyPercents == {40, 60}

\* The polygons the factory functions make of them.
Factory ==
    {from_vec(sz).shape : sz \in PolySizes}
        \cup {from_vec_with_rounding(sz, p).shape : sz \in PolySizes, p \in PolyPercents}

\* Where the second polygon stands and how it is turned (units of pi/12).
PolyOffsets == {Vec(0, 0), Vec(500, 0), Vec(700, 300), Vec(0, -1300), Vec(2000, 0)}

PolyTurns == {0, 3, 6}

TouchCalls ==
    {[fn |-> "is_touching", a |-> a,
      b |-> polygon_transform(b, [pos |-> off, rot |-> t])] :
        a \in Factory, b \in Factory, off \in PolyOffsets, t \in PolyTurns}

\* Polygon::is_touching
is_touching_call ==
    /\ call.fn = "is_touching"
    /\ ~ret.done
    /\ ret' = [done |-> TRUE, value |-> polygon_is_touching(call.a, call.b)]
    /\ UNCHANGED call

\* The polygons contains_point is called on: the factory's polygons, and
\* octagons of a rounding so small that c = m - 0.01 * m * percent is m
\* again at the precision of the arithmetic.
SmallSizes == {[x |-> 2, y |-> 2], [x |-> 6, y |-> 2]}

SmallPercent == 1

ContainsPolygons ==
    Factory \cup {from_vec_with_rounding(sz, SmallPercent).shape : sz \in SmallSizes}

\* The coordinates of the points asked about, in tenths: inside, outside,
\* on edges and on corners of the polygons.
PointCoords == {-1000, -500, -400, -200, -10, 0, 10, 30, 200, 300, 400, 500, 1000, 1200}

ContainsCalls ==
    {[fn |-> "contains_point",
      shape |-> polygon_transform(shape, [pos |-> off, rot |-> t]),
      pt |-> Vec(x, y)] :
        shape \in ContainsPolygons, off \in {Vec(0, 0), Vec(200, -100)},
        t \in PolyTurns, x \in PointCoords, y \in PointCoords}

\* Polygon::contains_point
contains_point_call ==
    /\ call.fn = "contains_point"
    /\ ~ret.done
    /\ ret' = [done |-> TRUE, value |-> contains_point(call.shape, call.pt)]
    /\ UNCHANGED call

\* The sizes and percentages from_vec_with_rounding is called with, those
\* its asserts refuse among them.
RoundingSizes == {-20, 0, 40, 60, 100}

RoundingPercents == {-10, 0, 1, 40, 50, 60, 99, 100, 150}

RoundingCalls ==
    {[fn |-> "from_vec_with_rounding", sz |-> [x |-> x, y |-> y], percent |-> p] :
        x \in RoundingSizes, y \in RoundingSizes, p \in RoundingPercents}

\* Polygon::from_vec_with_rounding
from_vec_with_rounding_call ==
    /\ call.fn = "from_vec_with_rounding"
    /\ ~ret.done
    /\ ret' = [done |-> TRUE, polygon |-> from_vec_with_rounding(call.sz, call.percent)]
    /\ UNCHANGED call

\* The vectors reflected and the lines they are reflected against: lines
\* along the axes, diagonal and of slope 4/3 and -3/4, from two places.
ReflectVectors == {Vec(200, 0), Vec(0, -100), Vec(150, -75), Vec(-325, 500)}

LineStarts == {Vec(0, 0), Vec(100, -50)}

LineSpans ==
    {Vec(100, 0), Vec(0, -200), Vec(100, 100), Vec(-100, 100), Vec(300, 400),
     Vec(-400, 300)}

ReflectCalls ==
    {[fn |-> "reflect_against_line", v |-> v, l0 |-> l0, l1 |-> VecAdd(l0, d)] :
        v \in ReflectVectors, l0 \in LineStarts, d \in LineSpans}

\* reflect_against_line, and reflect_against_line of its result against
\* the same line.
reflect_call ==
    /\ call.fn = "reflect_against_line"
    /\ ~ret.done
    /\ LET once == reflect_against_line(call.v, call.l0, call.l1)
       IN  ret' = [done |-> TRUE, once |-> once,
                   twice |-> reflect_against_line(once, call.l0, call.l1)]
    /\ UNCHANGED call

GeomCalls == TouchCalls \cup ContainsCalls \cup RoundingCalls \cup ReflectCalls

----------------------------------------------------------------------------
(* The separation and push-out loops, iteration by iteration: physics.rs *)

\* The call has gone past the test that guards its loop and has not left
\* the loop.
InLoop == ~ret.done /\ DOMAIN ret # {"done"}

\* Pairs of moving bodies, of every size, offset and turn of the scenes.
NudgeCalls ==
    {[fn |-> "nudge_loop", a |-> s[1], b |-> s[2]] :
        s \in {t \in Scenes : t[1].vel = Vec(200, 0) /\ t[2].vel = Vec(-100, 300)}}

\* collision_detection, for one pair, up to its loop: a pair without atlas
\* or apart is done with; a touching pair swaps its velocities and takes
\* its nudge from the two centres.
nudge_enter ==
    /\ call.fn = "nudge_loop"
    /\ DOMAIN ret = {"done"} /\ ~ret.done
    /\ \E abox \in {BoxOf(call.a)}, bbox \in {BoxOf(call.b)} :
           ret' = IF call.a.atlas /\ call.b.atlas /\ is_touching(abox, bbox)
                  THEN [done |-> FALSE, n |-> 0,
                        a |-> [call.a EXCEPT !.vel = call.b.vel],
                        b |-> [call.b EXCEPT !.vel = call.a.vel],
                        abox |-> abox, bbox |-> bbox,
                        nudge |-> NudgeOf(call.a.pos, call.b.pos)]
                  ELSE [done |-> TRUE, n |-> 0, a |-> call.a, b |-> call.b,
                        abox |-> abox, bbox |-> bbox, nudge |-> Vec(0, 0)]
    /\ UNCHANGED call

\* One iteration of `while abox.is_touching(&bbox)` that leaves the bodies
\* where they are.
nudge_step_in_place ==
    /\ call.fn = "nudge_loop"
    /\ InLoop
    /\ ret.n < MaxNudges
    /\ is_touching(ret.abox, ret.bbox)
    /\ ret' = ret
    /\ UNCHANGED call

\* One iteration of `while abox.is_touching(&bbox)`.
nudge_step ==
    /\ call.fn = "nudge_loop"
    /\ InLoop
    /\ ret.n < MaxNudges
    /\ is_touching(ret.abox, ret.bbox)
    /\ \E a1 \in {[ret.a EXCEPT !.pos = VecSub(@, ret.nudge)]},
          b1 \in {[ret.b EXCEPT !.pos = VecAdd(@, ret.nudge)]} :
           ret' = [ret EXCEPT !.a = a1, !.b = b1, !.abox = BoxOf(a1),
                              !.bbox = BoxOf(b1), !.n = @ + 1]
    /\ UNCHANGED call

\* The loop's test fails: the pair is done with.
nudge_exit ==
    /\ call.fn = "nudge_loop"
    /\ InLoop
    /\ ~is_touching(ret.abox, ret.bbox)
    /\ ret' = [ret EXCEPT !.done = TRUE]
    /\ UNCHANGED call

\* Cars against a tree or a block, those whose reflected velocity points
\* into the obstacle among them.
PushOffsets(collider) ==
    IF collider = "Tree"
    THEN {Vec(0, -1000), Vec(300, -1000), Vec(-800, 0), Vec(0, -3000)}
    ELSE {Vec(0, -1650), Vec(-2500, 300), Vec(-2600, -1500), Vec(0, -3000)}

PushCalls ==
    UNION {{[fn |-> "push_loop",
             car |-> [pos |-> off, rot |-> cr, size |-> [x |-> 70, y |-> 121],
                      vel |-> v, atlas |-> TRUE],
             obj |-> [pos |-> Vec(0, 0), rot |-> 0, collider |-> c]] :
               cr \in {0, 6}, v \in CarVelocities \cup {Vec(0, -200)},
               off \in PushOffsets(c)} : c \in {"Tree", "Block"}}

\* fixed_collision_detection, for one car and one obstacle, up to its
\* loops: the velocity is reflected or negated, or the pair is done with.
push_enter ==
    /\ call.fn = "push_loop"
    /\ DOMAIN ret = {"done"} /\ ~ret.done
    /\ \E cb \in {BoxOf(call.car)}, ob \in {obj_box(call.obj)} :
         \E inside \in {VerticesIn(cb, ob)} :
           \E branch \in {IF ~call.car.atlas THEN "none"
                          ELSE IF inside # {} THEN "reflect"
                          ELSE IF VerticesIn(ob, cb) # {} THEN "negate"
                          ELSE "none"} :
             \E line \in {IF branch = "reflect"
                          THEN closest_edge_to_point(cb.points[First(inside)], ob.points)
                          ELSE <<>>} :
               \E vel \in {IF branch = "reflect"
                           THEN reflect_against_line(call.car.vel, line[1], line[2])
                           ELSE IF branch = "negate"
                           THEN Vec(-call.car.vel.x, -call.car.vel.y)
                           ELSE call.car.vel} :
                 ret' = [done |-> branch = "none", n |-> 0, branch |-> branch,
                         car |-> [call.car EXCEPT !.vel = vel],
                         car_box |-> cb, obj_box |-> ob]
    /\ UNCHANGED call

\* One iteration of `while car_box.is_touching(&obj_box)` that leaves the
\* car where it is.
push_step_in_place ==
    /\ call.fn = "push_loop"
    /\ InLoop
    /\ ret.n < MaxPushes
    /\ is_touching(ret.car_box, ret.obj_box)
    /\ ret' = ret
    /\ UNCHANGED call

\* One iteration of `while car_box.is_touching(&obj_box)`.
push_step ==
    /\ call.fn = "push_loop"
    /\ InLoop
    /\ ret.n < MaxPushes
    /\ is_touching(ret.car_box, ret.obj_box)
    /\ \E car1 \in {[ret.car EXCEPT !.pos = VecAdd(@, UnitStep(ret.car.vel))]} :
         \E box1 \in {BoxOf(car1)} :
           ret' = [ret EXCEPT !.car = car1, !.car_box = box1, !.n = @ + 1]
    /\ UNCHANGED call

\* The loop's test fails: the obstacle is done with.
push_exit ==
    /\ call.fn = "push_loop"
    /\ InLoop
    /\ ~is_touching(ret.car_box, ret.obj_box)
    /\ ret' = [ret EXCEPT !.done = TRUE]
    /\ UNCHANGED call

LoopCalls == NudgeCalls \cup PushCalls

----------------------------------------------------------------------------
(* Specifications *)

NoField == [w |-> 1, h |-> 1, scale |-> 1, cells |-> <<<<0>>>>]

LapIdle == LapStart(<<>>)

FieldIdle == FieldStart(NoField, F32(0), F32(0))

ColIdle == ColStart(<<>>)

TickIdle == TickStart({}, 87)

CallIdle == CallStart([fn |-> "none"])

\* Level load and lap counting.
InitLap ==
    /\ \E os \in LapSeqs : LapStart(os)
    /\ FieldIdle /\ ColIdle /\ TickIdle /\ CallIdle

NextLap ==
    /\ \/ handle_map_events
       \/ \E c \in 1..MaxObjects : lap_counter(c)
    /\ UNCHANGED <<fieldVars, colVars, tickVars, callVars>>

SpecLap == InitLap /\ [][NextLap]_vars

\* One query of a guidance field.
InitField ==
    /\ \E f \in Fields, x \in QueryCoords, y \in QueryCoords : FieldStart(f, x, y)
    /\ LapIdle /\ ColIdle /\ TickIdle /\ CallIdle

NextField == guidance_get /\ UNCHANGED <<lapVars, colVars, tickVars, callVars>>

SpecField == InitField /\ [][NextField]_vars

\* One run of collision_detection over bodies that may touch.
InitCollide ==
    /\ \E bs \in Scenes \cup Trios : ColStart(bs)
    /\ LapIdle /\ FieldIdle /\ TickIdle /\ CallIdle

NextCollide == collide_pair /\ UNCHANGED <<lapVars, fieldVars, tickVars, callVars>>

SpecCollide == InitCollide /\ [][NextCollide]_vars

\* The systems of a frame, in any order the schedule allows.
Systems_step ==
    \/ generate_guidance_field
    \/ handle_keyboard
    \/ handle_ai_players
    \/ apply_velocity
    \/ apply_friction
    \/ track_player
    \/ collision_detection
    \/ apply_time_penalties

\* The frames of a run whose racers are the car objects of the level.
InitLevel ==
    /\ \E os \in LevelSeqs : LapStart(os)
    /\ \E k \in KeySets : TickStartWith(<<>>, k, 87)
    /\ FieldIdle /\ ColIdle /\ CallIdle

NextLevel ==
    /\ \/ spawn_level
       \/ (load_maps \/ asset_events \/ begin_tick \/ end_tick) /\ UNCHANGED lapVars
       \/ Systems_step /\ UNCHANGED lapVars
    /\ UNCHANGED <<fieldVars, colVars, callVars>>

SpecLevel == InitLevel /\ [][NextLevel]_vars

\* The load of a level whose objects are of every kind.
InitSpawn ==
    /\ \E os \in SpawnSeqs : LapStart(os)
    /\ FieldIdle /\ ColIdle /\ TickIdle /\ CallIdle

NextSpawn == handle_map_events /\ UNCHANGED <<fieldVars, colVars, tickVars, callVars>>

SpecSpawn == InitSpawn /\ [][NextSpawn]_vars

\* One call of a function of geometry.rs.
InitGeom ==
    /\ \E c \in GeomCalls : CallStart(c)
    /\ LapIdle /\ FieldIdle /\ ColIdle /\ TickIdle

NextGeom ==
    /\ \/ is_touching_call
       \/ contains_point_call
       \/ from_vec_with_rounding_call
       \/ reflect_call
    /\ UNCHANGED <<lapVars, fieldVars, colVars, tickVars>>

SpecGeom == InitGeom /\ [][NextGeom]_vars

\* One run of a loop of physics.rs, an iteration at a time.
InitLoop ==
    /\ \E c \in LoopCalls : CallStart(c)
    /\ LapIdle /\ FieldIdle /\ ColIdle /\ TickIdle

NextLoop ==
    /\ \/ nudge_enter
       \/ nudge_step
       \/ nudge_exit
       \/ push_enter
       \/ push_step
       \/ push_exit
    /\ UNCHANGED <<lapVars, fieldVars, colVars, tickVars>>

SpecLoop == InitLoop /\ [][NextLoop]_vars

\* The program runs on: a loop that can take its next step takes it.
SpecLoopFair == SpecLoop /\ WF_vars(NextLoop)

\* One call of a function of the program, on arguments of its domain.
InitCall ==
    /\ \E c \in Calls : CallStart(c)
    /\ LapIdle /\ FieldIdle /\ ColIdle /\ TickIdle

NextCall ==
    /\ \/ normalize_call
       \/ friction_call
       \/ steer_call
       \/ fixed_call
       \/ collide_debug_call
       \/ ai_debug_call
    /\ UNCHANGED <<lapVars, fieldVars, colVars, tickVars>>

SpecCall == InitCall /\ [][NextCall]_vars

\* The frames of a run, the systems of each in any order the schedule allows.
Init ==
    /\ \E k \in KeySets, d \in Deltas : TickStart(k, d)
    /\ LapIdle /\ FieldIdle /\ ColIdle /\ CallIdle

Next ==
    /\ \/ load_maps
       \/ asset_events
       \/ begin_tick
       \/ generate_guidance_field
       \/ handle_keyboard
       \/ handle_ai_players
       \/ apply_velocity
       \/ apply_friction
       \/ track_player
       \/ collision_detection
       \/ apply_time_penalties
       \/ end_tick
    /\ UNCHANGED <<lapVars, fieldVars, colVars, callVars>>

Spec == Init /\ [][Next]_vars

----------------------------------------------------------------------------
(* Claims about GuidanceField::get *)

\* The queried position, shifted by half the field's size, in tenths.
ShiftedX == qpos.x.v + qfield.w * 5

ShiftedY == qpos.y.v + qfield.h * 5

\* C9: GuidanceField::get never panics and returns a value in 0..=255, for
\* every position: negative, far beyond the field, or NaN.
C9_GetNeverFaults ==
    qres.done => (~qres.fault /\ qres.value \in 0..255)

\* A query far to the lower left of the field has been answered.
C9_Witness ==
    /\ qres.done
    /\ ~qpos.x.nan /\ qpos.x.v = -FarAway
    /\ ~qpos.y.nan /\ qpos.y.v = -FarAway
    /\ qres.value = 0

\* The queried position lies outside the field's pixel extent.
OutsideExtent ==
    \/ qpos.x.nan \/ qpos.y.nan
    \/ ShiftedX < 0 \/ ShiftedX >= qfield.w * 10
    \/ ShiftedY < 0 \/ ShiftedY >= qfield.h * 10

\* C10: GuidanceField::get returns 0 for every position outside the field's
\* pixel extent, on any side.
C10_ZeroOutside ==
    (qres.done /\ OutsideExtent) => qres.value = 0

----------------------------------------------------------------------------
(* Claims about collision_detection *)

\* The pair handled last was touching, with distinct centres, when its
\* turn came.
PairCollided ==
    /\ lastPair.i > 0
    /\ lastPair.a.atlas /\ lastPair.b.atlas
    /\ is_touching(BoxOf(lastPair.a), BoxOf(lastPair.b))
    /\ lastPair.a.pos # lastPair.b.pos

\* C4: when collision_detection has handled a pair of moving bodies that
\* were touching and had distinct centres, the two no longer touch and each
\* holds the velocity the other had before.
C4_PairResolved ==
    PairCollided =>
        /\ ~lastPair.hung
        /\ ~is_touching(BoxOf(bodies[lastPair.i]), BoxOf(bodies[lastPair.j]))
        /\ bodies[lastPair.i].vel = lastPair.b.vel
        /\ bodies[lastPair.j].vel = lastPair.a.vel

\* Two squares of side 100 that overlapped by 10 along the x axis have
\* been handled and have been moved.
C4_Witness ==
    /\ PairCollided
    /\ lastPair.a.size = [x |-> 100, y |-> 100]
    /\ lastPair.b.size = [x |-> 100, y |-> 100]
    /\ lastPair.b.pos = Vec(900, 0)
    /\ lastPair.a.vel # lastPair.b.vel
    /\ bodies[2].pos.x > 900

----------------------------------------------------------------------------
(* Claims about the systems of a tick *)

\* The step is the run of system s.
Runs(s) == s \notin ran /\ s \in ran'

\* The steering system of racer c.
SteeringOf(c) == IF cars[c].player THEN "handle_keyboard" ELSE "handle_ai_players"

\* C5: in a tick that a car began with a penalty above 0, the car's
\* steering system leaves its angle, velocity and rotation as they were and
\* sets its penalty to max(0, penalty - dt).
C5_PenaltyGating ==
    [][\A c \in 1..Len(cars) :
          (Runs(SteeringOf(c)) /\ penalty0[c] > 0) =>
              /\ cars'[c].angle = cars[c].angle
              /\ cars'[c].vel = cars[c].vel
              /\ cars'[c].rot = cars[c].rot
              /\ cars'[c].penalty = Max(0, cars[c].penalty - dt)]_vars

\* C6: when the systems of a tick have all run, every car that began the
\* tick with a penalty above 0 and got no tile-skip penalty in it has that
\* penalty less dt, or 0.
C6_DecayEveryTick ==
    ran = Systems =>
        \A c \in 1..Len(cars) :
            (penalty0[c] > 0 /\ ~skipped[c]) =>
                cars[c].penalty = Max(0, penalty0[c] - dt)

\* Whether racer c is over a cell of the track layer that holds a tile.
OnTrack(c) ==
    /\ ~cars[c].pos.nan
    /\ get_tile(TrackMap, AsCell(TileX(TrackMap, cars[c].pos)),
                AsCell(TileY(TrackMap, cars[c].pos)))

\* How far racer c is from its last sample on the track, in thousandths of
\* a tile.
FromLastTile(c) ==
    Distance(TileX(TrackMap, cars[c].pos), TileY(TrackMap, cars[c].pos),
             cars[c].last_tile.x, cars[c].last_tile.y)

\* C7: apply_time_penalties, for a car over the track, adds the distance
\* from the car's last sample on the track to its penalty when that
\* distance is above one tile, adds nothing otherwise or when there is no
\* last sample, and makes the sample the last one; for a car off the track
\* it changes neither.
C7_TileSkipPenalty ==
    [][(Runs("apply_time_penalties") /\ maps) =>
          \A c \in 1..Len(cars) :
              IF OnTrack(c)
              THEN /\ cars'[c].last_tile =
                          Some(TileX(TrackMap, cars[c].pos), TileY(TrackMap, cars[c].pos))
                   /\ cars'[c].penalty =
                          IF cars[c].last_tile.some /\ FromLastTile(c) > 1000
                          THEN cars[c].penalty + FromLastTile(c)
                          ELSE cars[c].penalty
              ELSE /\ cars'[c].last_tile = cars[c].last_tile
                   /\ cars'[c].penalty = cars[c].penalty]_vars

\* apply_time_penalties has just penalised one car for a skip, taken the
\* first sample of another, and left a third, off the track, alone.
C7_Witness ==
    /\ "apply_time_penalties" \in ran
    /\ \E c \in 1..Len(cars) : skipped[c] /\ cars[c].penalty > penalty0[c]
    /\ \E c \in 1..Len(cars) : ~OnTrack(c) /\ cars[c].last_tile.some

\* C8: in every tick collision_detection runs after both steering systems,
\* apply_velocity and apply_friction, and these two after the steering
\* systems.
C8_TickOrder ==
    /\ "collision_detection" \in ran =>
           {"handle_keyboard", "handle_ai_players", "apply_velocity",
            "apply_friction"} \subseteq ran
    /\ (ran \cap {"apply_velocity", "apply_friction"} # {}) =>
           {"handle_keyboard", "handle_ai_players"} \subseteq ran

\* C11: in a tick without GuidanceField, handle_ai_players leaves the
\* angle, velocity and rotation of every AI car alone and apply_friction
\* multiplies every velocity by 1 - 1.2*dt only; in a tick with one,
\* handle_ai_players steers every AI car that has no penalty.
C11_NoGuideNoOp ==
    [][\A c \in 1..Len(cars) :
          /\ (Runs("handle_ai_players") /\ ~guide /\ ~cars[c].player) =>
                 /\ cars'[c].angle = cars[c].angle
                 /\ cars'[c].vel = cars[c].vel
                 /\ cars'[c].rot = cars[c].rot
          /\ (Runs("apply_friction") /\ ~guide) =>
                 /\ cars'[c].vel.x = TruncDiv(cars[c].vel.x * (10000 - 12 * dt), 10000)
                 /\ cars'[c].vel.y = TruncDiv(cars[c].vel.y * (10000 - 12 * dt), 10000)
          /\ (Runs("handle_ai_players") /\ guide /\ ~cars[c].player
                  /\ cars[c].penalty = 0) =>
                 cars'[c].rot = cars'[c].angle - 6]_vars

\* After a tick without GuidanceField, the resource exists and
\* handle_ai_players has turned an AI car to its angle.
C11_Witness ==
    /\ tick >= 2
    /\ guide
    /\ "handle_ai_players" \in ran
    /\ \E c \in 1..Len(cars) :
           ~cars[c].player /\ cars[c].rot # 0 /\ cars[c].rot = cars[c].angle - 6

----------------------------------------------------------------------------
(* Claims about single functions *)

\* C13: the angle Angle::normalize leaves is above -pi and at most pi, for
\* every angle it is called on.
C13_AngleWrapped ==
    (call.fn = "normalize" /\ ret.done) => (ret.a > -PI /\ ret.a <= PI)

\* The extra drag of the claim, dt * (1.2 + 1.2 * (1 - i/140)), in units
\* of 1/140000.
ClaimedDrag(d, i) == (d * (1680 + 12 * (140 - i))) \div 10

\* C14: apply_friction multiplies a body's velocity by 1 - 1.2*dt and, if
\* and only if there is a GuidanceField whose intensity i at the body is
\* below 140, by 1 - dt*(1.2 + 1.2*(1 - i/140)) as well; a velocity of
\* (100, 0) without guidance and with dt = 0.1 becomes (88, 0); the extra
\* drag is larger the smaller i is; the position is left alone.
C14_FrictionFactor ==
    (call.fn = "friction" /\ ret.done) =>
        LET v == call.r.vel
            d == call.delta
            i == call.pixel
            bx == TruncDiv(v.x * (10000 - 12 * d), 10000)
            by == TruncDiv(v.y * (10000 - 12 * d), 10000)
        IN  /\ ret.r.vel =
                  IF call.g /\ i < 140
                  THEN Vec(TruncDiv(bx * (140000 - ClaimedDrag(d, i)), 140000),
                           TruncDiv(by * (140000 - ClaimedDrag(d, i)), 140000))
                  ELSE Vec(bx, by)
            /\ (v = Vec(1000, 0) /\ d = 100 /\ ~call.g) => ret.r.vel = Vec(880, 0)
            /\ \A j \in Pixels : (j < i /\ i < 140) => ClaimedDrag(d, j) > ClaimedDrag(d, i)
            /\ ret.r.pos = call.r.pos

\* A body with velocity (100, 0) on a pixel of intensity 0 has been slowed
\* to 88 and then by the extra drag.
C14_Witness ==
    /\ call.fn = "friction" /\ ret.done
    /\ call.g /\ call.pixel = 0 /\ call.delta = 100
    /\ call.r.vel = Vec(1000, 0)
    /\ ret.r.vel = Vec(668, 0)

\* The readings px with left and right exchanged.
Exchanged(px) ==
    [left |-> px.right, right |-> px.left, left2 |-> px.right2,
     right2 |-> px.left2, front |-> px.front]

\* The turn the claim gives for the readings px: 1 to the left, -1 to the
\* right, 0 for none.
ClaimedTurn(px) ==
    LET left == (px.left - 10 > px.right) \/ (px.left2 - 10 > px.right2)
        right == (px.right - 10 > px.left) \/ (px.right2 - 10 > px.left2)
    IN  IF left /\ ~right THEN 1 ELSE IF right /\ ~left THEN -1 ELSE 0

\* C15: an AI car without penalty, with a field, turns by +3*dt when the
\* left condition holds and the right one does not, by -3*dt when the right
\* one holds and the left one does not, and not at all otherwise (angles
\* taken modulo a full turn); with left and right readings exchanged it
\* turns the other way.
C15_SteeringRule ==
    (call.fn = "steer" /\ ret.done) =>
        /\ (ret.r.angle - call.r.angle
              - ClaimedTurn(call.px) * AngleStep(call.delta)) % (2 * PI) = 0
        /\ (ai_steer(call.r, call.delta, Exchanged(call.px)).angle - call.r.angle
              + ClaimedTurn(call.px) * AngleStep(call.delta)) % (2 * PI) = 0

\* A car whose far whiskers read 111 on the left against 100 and whose
\* near whiskers read the reverse has been steered and has kept its angle.
C15_Witness ==
    /\ call.fn = "steer" /\ ret.done
    /\ call.px.left = 111 /\ call.px.right = 100
    /\ call.px.left2 = 100 /\ call.px.right2 = 111
    /\ call.r.angle = 0 /\ ret.r.angle = 0

\* The car of the call has a vertex inside the obstacle.
CarInObstacle == VerticesIn(BoxOf(call.car), obj_box(call.obj)) # {}

\* The obstacle of the call has a vertex inside the car.
ObstacleInCar == VerticesIn(obj_box(call.obj), BoxOf(call.car)) # {}

\* The position is the car's position moved by whole steps along the
\* velocity v.
PushedAlong(pos, v) ==
    \E n \in 1..MaxPushes :
        /\ pos.x = call.car.pos.x + n * UnitStep(v).x
        /\ pos.y = call.car.pos.y + n * UnitStep(v).y

\* C16: a car with a vertex inside an obstacle gets its velocity reflected
\* about the obstacle's edge closest to the first such vertex; otherwise a
\* car holding a vertex of the obstacle gets its velocity negated; in both
\* cases the car is moved by unit steps along the new velocity and does not
\* touch the obstacle afterwards; the obstacle is left as it was.
C16_FixedResolution ==
    (call.fn = "fixed" /\ ret.done /\ call.car.vel # Vec(0, 0)) =>
        LET ob == obj_box(call.obj)
            pt == BoxOf(call.car).points[First(VerticesIn(BoxOf(call.car), ob))]
            line == closest_edge_to_point(pt, ob.points)
        IN  /\ ret.obj = call.obj
            /\ ~ret.hung
            /\ ~is_touching(BoxOf(ret.car), ob)
            /\ CarInObstacle =>
                   /\ ret.car.vel = reflect_against_line(call.car.vel, line[1], line[2])
                   /\ PushedAlong(ret.car.pos, ret.car.vel)
            /\ (~CarInObstacle /\ ObstacleInCar) =>
                   /\ ret.car.vel = Vec(-call.car.vel.x, -call.car.vel.y)
                   /\ PushedAlong(ret.car.pos, ret.car.vel)
            /\ (~CarInObstacle /\ ~ObstacleInCar) => ret.car = call.car

\* A car that came from below with a corner inside a tree has been sent to
\* the left by the tree's slanted edge and pushed clear.
C16_Witness ==
    /\ call.fn = "fixed" /\ ret.done
    /\ call.obj.collider = "Tree"
    /\ call.car.pos = Vec(0, -1000) /\ call.car.rot = 0
    /\ call.car.vel = Vec(0, 200)
    /\ CarInObstacle
    /\ ret.car.vel = Vec(-200, 0)
    /\ ret.car.pos.x < 0 /\ ret.car.pos.y = -1000

----------------------------------------------------------------------------
(* Claims about the level load *)

\* The objects without tile data among the first n objects.
ShapesBefore(n) == Cardinality({j \in 1..n : objs[j] \in {"rect", "ellipse"}})

\* The places of the rectangles among the objects, in authoring order.
RectPlaces == SelectSeq([j \in 1..Len(objs) |-> j], LAMBDA j : objs[j] = "rect")

\* C17: after the level load every rectangle has a checkpoint whose bit is
\* 1 << n for the number n of shape objects authored before it, no two
\* checkpoints have the same bit, and a checkpoint authored earlier has a
\* lower bit.
C17_CheckpointBits ==
    loaded =>
        /\ Len(checkpoints) = Len(RectPlaces)
        /\ \A i \in 1..Len(checkpoints) :
               checkpoints[i] = Pow2(ShapesBefore(RectPlaces[i] - 1))
        /\ \A i, j \in 1..Len(checkpoints) : i < j => checkpoints[i] < checkpoints[j]

\* Two rectangles with an unsupported shape between them got the bits 1
\* and 4.
C17_Witness ==
    /\ loaded
    /\ objs = <<"rect", "ellipse", "rect">>
    /\ checkpoints = <<1, 4>>

\* The objects that can be turned into an entity.
WellFormed(kind) == kind \in {"rect", "tile", "car_red", "car_blue"}

\* The name of the entity of a well-formed object.
EntityName(kind) ==
    IF kind = "rect" THEN "Checkpoint"
    ELSE IF kind = "car_red" THEN "Human"
    ELSE IF kind = "car_blue" THEN "AI"
    ELSE "Scenery"

\* The objects the claim calls malformed.
Malformed(kind) == kind \in {"notmapid", "notile", "noimage", "ellipse"}

\* C18: the level load spawns one entity for every well-formed object, in
\* the objects' order, and nothing for the others, wherever the malformed
\* objects stand in the sequence.
C18_SkippedIndividually ==
    loaded =>
        LET good == SelectSeq(objs, WellFormed)
        IN  /\ Len(entities) = Len(good)
            /\ \A i \in 1..Len(good) : entities[i].name = EntityName(good[i])

\* A level with a malformed object between two well-formed ones has been
\* loaded and both well-formed objects have their entities.
C18_Witness ==
    /\ loaded
    /\ Len(objs) = 3
    /\ WellFormed(objs[1]) /\ Malformed(objs[2]) /\ WellFormed(objs[3])
    /\ Len(entities) = 2
    /\ entities[2].name = EntityName(objs[3])

----------------------------------------------------------------------------
(* Claims about the debug visualisation *)

\* C19: the positions, velocities, angles, rotations and penalties that
\* collision_detection and handle_ai_players produce are the same under
\* every debug level.
C19_DebugNoEffect ==
    /\ (call.fn = "collide_debug" /\ ret.done) =>
           \A d \in DebugLevels :
               LET o == collision_pair(d, call.a, call.b, 0)
               IN  o.a = ret.a /\ o.b = ret.b /\ o.hung = ret.hung
    /\ (call.fn = "ai_debug" /\ ret.done) =>
           \A d \in DebugLevels : ai_player(d, call.r, call.delta, 0).r = ret.r

\* A pair of touching cars has been drawn and separated.
C19_Witness ==
    /\ call.fn = "collide_debug" /\ ret.done
    /\ call.debug = 2
    /\ ret.gizmos > 0
    /\ is_touching(BoxOf(call.a), BoxOf(call.b))
    /\ ret.a.pos # call.a.pos
    /\ ~is_touching(BoxOf(ret.a), BoxOf(ret.b))

----------------------------------------------------------------------------
(* Claims about the swap of the guidance field *)

\* C20: the guidance field the systems read changes only in the step that
\* ends a tick, where the field built during the tick replaces the one
\* before; within a tick every reader finds the same field.
C20_SwapBetweenTicks ==
    [][guide' # guide => (inTick /\ ~inTick' /\ inserts /\ guide')]_vars

\* Every system of the tick has run, generate_guidance_field has built the
\* new field, and the field the systems read is still the one from before
\* the tick.
C20_Witness ==
    /\ inTick
    /\ ran = Systems
    /\ added = "read"
    /\ inserts
    /\ ~guide

----------------------------------------------------------------------------
(* Claims about polygons *)

\* The point of a convex polygon's plane is inside it or on its boundary:
\* it is to the same side of every edge.
Within(shape, pt) ==
    LET side(k) == Sign(CrossZ(shape[k], shape[(k % Len(shape)) + 1], pt))
    IN  \/ \A k \in 1..Len(shape) : side(k) >= 0
        \/ \A k \in 1..Len(shape) : side(k) <= 0

\* Some vertex of one of the two polygons is within the other.
VertexWithin(a, b) ==
    \/ \E k \in 1..Len(b) : Within(a, b[k])
    \/ \E k \in 1..Len(a) : Within(b, a[k])

\* C21: is_touching is true exactly when a vertex of one polygon is within
\* the other, boundary included, and gives the same answer with the two
\* polygons exchanged; CollisionBox::is_touching gives that answer too.
C21_VertexContainment ==
    (call.fn = "is_touching" /\ ret.done) =>
        /\ ret.value = VertexWithin(call.a, call.b)
        /\ ret.value = polygon_is_touching(call.b, call.a)
        /\ ret.value = is_touching([nan |-> FALSE, points |-> call.a],
                                   [nan |-> FALSE, points |-> call.b])

\* Two bars crossing like a plus sign, of which neither has a vertex within
\* the other although the centre of each is within both, are reported as
\* not touching.
C21_Witness ==
    /\ call.fn = "is_touching" /\ ret.done
    /\ call.a = from_vec([x |-> 40, y |-> 200]).shape
    /\ call.b = polygon_transform(call.a, [pos |-> Vec(0, 0), rot |-> 6])
    /\ Within(call.a, Vec(0, 0)) /\ Within(call.b, Vec(0, 0))
    /\ ~ret.value

\* The point is strictly inside the polygon: strictly to the same side of
\* every edge that has a length.
StrictlyInside(shape, pt) ==
    LET side(k) == Sign(CrossZ(shape[k], shape[(k % Len(shape)) + 1], pt))
        edges == {k \in 1..Len(shape) : shape[k] # shape[(k % Len(shape)) + 1]}
    IN  \/ \A k \in edges : side(k) > 0
        \/ \A k \in edges : side(k) < 0

\* C22: contains_point is true of a point strictly inside the polygon or on
\* its boundary and false of a point strictly outside it, for every polygon
\* of the factory functions under a rigid transform.
C22_ContainsPoint ==
    (call.fn = "contains_point" /\ ret.done) =>
        /\ StrictlyInside(call.shape, call.pt) => ret.value
        /\ Within(call.shape, call.pt) => ret.value
        /\ ~Within(call.shape, call.pt) => ~ret.value

\* The octagon is the rectangle of half-width w and half-height h with
\* each corner cut back by cut along both of its sides.
CornersCutBy(shape, w, h, cut) ==
    shape = <<Vec(cut - w, h), Vec(w - cut, h), Vec(w, h - cut), Vec(w, cut - h),
              Vec(w - cut, -h), Vec(cut - w, -h), Vec(-w, cut - h), Vec(-w, h - cut)>>

\* The eight points turn the same way at every point: the octagon is convex.
ConvexOctagon(shape) ==
    /\ Len(shape) = 8
    /\ \A k \in 1..8 :
           CrossZ(SegmentOf(shape, k)[1], SegmentOf(shape, k)[2],
                  SegmentOf(shape, k)[3]) < 0

\* Every point of the shape lies in the rectangle of half-width w and
\* half-height h.
InsideRectangle(shape, w, h) ==
    \A k \in 1..Len(shape) : Abs(shape[k].x) <= w /\ Abs(shape[k].y) <= h

\* The arguments pass both asserts of from_vec_with_rounding.
RoundingAccepted ==
    /\ call.sz.x > 0 /\ call.sz.y > 0
    /\ call.percent > 0 /\ call.percent < 100

\* What from_vec_with_rounding returns when each corner is cut back by
\* `part` hundredths of the shorter half-dimension.
RoundedBy(part) ==
    LET w == call.sz.x * 5
        h == call.sz.y * 5
        m == Min(w, h)
    IN  IF RoundingAccepted
        THEN /\ ~ret.polygon.abort
             /\ ConvexOctagon(ret.polygon.shape)
             /\ InsideRectangle(ret.polygon.shape, w, h)
             /\ CornersCutBy(ret.polygon.shape, w, h, (m * part) \div 100)
        ELSE ret.polygon = Aborted

\* C23 as stated: the corners are cut back by percent hundredths of the
\* shorter half-dimension.
C23_CutByPercent ==
    (call.fn = "from_vec_with_rounding" /\ ret.done) => RoundedBy(call.percent)

\* C23: for a positive size and a percent strictly between 0 and 100
\* from_vec_with_rounding returns a convex octagon inside the rectangle of
\* the size whose corners are each cut back by (100 - percent) hundredths
\* of the shorter half-dimension, percent being the part of the shorter
\* side that is kept; for other arguments it aborts and makes no polygon.
C23_CutByRemainder ==
    (call.fn = "from_vec_with_rounding" /\ ret.done) => RoundedBy(100 - call.percent)

\* A 100 x 60 octagon of percent 40 has been made: its corners are cut
\* back by 18 of the 30 units of the shorter half-dimension.
C23_Witness ==
    /\ call.fn = "from_vec_with_rounding" /\ ret.done
    /\ call.sz = [x |-> 100, y |-> 60] /\ call.percent = 40
    /\ ~ret.polygon.abort
    /\ ret.polygon.shape[1] = Vec(-320, 300)
    /\ ret.polygon.shape[8] = Vec(-500, 120)

\* The scalar product of two vectors.
Dot(a, b) == a.x * b.x + a.y * b.y

\* C24: reflecting a vector twice against a line with distinct end points
\* gives the vector back, and one reflection keeps the vector's component
\* along the line and negates its component along the line's normal.
C24_ReflectionInvolution ==
    (call.fn = "reflect_against_line" /\ ret.done) =>
        LET along == VecSub(call.l1, call.l0)
            normal == Vec(-along.y, along.x)
        IN  /\ ret.twice = call.v
            /\ ~ret.once.nan
            /\ Dot(ret.once, along) = Dot(call.v, along)
            /\ Dot(ret.once, normal) = -Dot(call.v, normal)

\* A vector that is neither along the line nor along its normal has been
\* reflected against a slanted line into another vector, and back.
C24_Witness ==
    /\ call.fn = "reflect_against_line" /\ ret.done
    /\ call.v = Vec(150, -75)
    /\ VecSub(call.l1, call.l0) = Vec(300, 400)
    /\ ret.once = Vec(-114, 123)
    /\ ret.twice = call.v

----------------------------------------------------------------------------
(* Claims about the loops of physics.rs *)

\* The step is an iteration of the separation loop.
NudgeIteration ==
    call.fn = "nudge_loop" /\ InLoop /\ ~ret'.done /\ ret'.n = ret.n + 1

\* The nudge is half a world unit long and points from the first centre of
\* the call to the second.
HalfUnitApart(nudge) ==
    LET d == VecSub(call.b.pos, call.a.pos)
    IN  /\ ~nudge.nan
        /\ Dot(nudge, nudge) = 25
        /\ nudge.x * d.y = nudge.y * d.x
        /\ Dot(nudge, d) > 0

\* C25: the separation loop of a touching pair with distinct centres ends,
\* and each of its iterations moves the first body half a unit back and the
\* second half a unit on along the direction from the first centre to the
\* second as it was before the loop.
C25_NudgeTerminates ==
    /\ (call.fn = "nudge_loop" /\ call.a.pos # call.b.pos) ~> ret.done
    /\ [][(NudgeIteration /\ call.a.pos # call.b.pos) =>
            /\ HalfUnitApart(ret.nudge)
            /\ ret'.a.pos = VecSub(ret.a.pos, ret.nudge)
            /\ ret'.b.pos = VecAdd(ret.b.pos, ret.nudge)
            /\ ret'.nudge = ret.nudge]_vars

\* Two cars that overlapped have left their loop after several iterations
\* and are apart.
C25_Witness ==
    /\ call.fn = "nudge_loop" /\ ret.done
    /\ call.a.pos # call.b.pos
    /\ ret.n > 5
    /\ ret.abox = BoxOf(ret.a) /\ ret.bbox = BoxOf(ret.b)
    /\ ~is_touching(ret.abox, ret.bbox)

\* A step of the model that is one iteration of a push-out loop.
PushIteration ==
    call.fn = "push_loop" /\ InLoop /\ ~ret'.done /\ ret'.n = ret.n + 1

\* C26: for a car with a velocity, the push-out loop after the reflection and
\* the one after the inversion both end, and each of their iterations moves
\* the car one step along the velocity the branch has set.
C26_PushOutTerminates ==
    /\ (call.fn = "push_loop" /\ call.car.vel # Vec(0, 0)) ~> ret.done
    /\ [][PushIteration =>
            /\ ret.branch \in {"reflect", "negate"}
            /\ ret'.car.pos = VecAdd(ret.car.pos, UnitStep(ret.car.vel))
            /\ ret'.car.vel = ret.car.vel]_vars

\* A car leaving a block downwards is reflected back into it by the block's
\* lower edge, and its loop ends once it has crossed the block.
C26_Witness ==
    /\ call.fn = "push_loop" /\ ret.done
    /\ call.obj.collider = "Block"
    /\ call.car.vel = Vec(0, -200) /\ call.car.pos = Vec(0, -1650)
    /\ ret.branch = "reflect" /\ ret.car.vel = Vec(0, 200)
    /\ ret.n > 100
    /\ ret.car.pos.y > 0
    /\ ~is_touching(ret.car_box, ret.obj_box)

----------------------------------------------------------------------------
(* Claims about collision_detection over more than two bodies *)

\* collision_detection has handled every pair of the query.
RunOver == pairIdx = Len(PairsOf(Len(bodies))) /\ ~lastPair.hung

\* Bodies i and j both have their atlas and their boxes touch.
Touching(bs, i, j) ==
    bs[i].atlas /\ bs[j].atlas /\ is_touching(BoxOf(bs[i]), BoxOf(bs[j]))

\* C27 as stated: after collision_detection has handled all pairs, no two
\* moving bodies touch, however many bodies there are.
C27_NoneLeftTouching ==
    RunOver => \A i, j \in 1..Len(bodies) : i < j => ~Touching(bodies, i, j)

\* C27, amended: after collision_detection has handled all pairs, two moving
\* bodies that still touch are two of three or more and are not the pair
\* the run handled last; two bodies alone are always left apart.
C27_OnlyLaterPairsApart ==
    RunOver =>
        \A i, j \in 1..Len(bodies) :
            (i < j /\ Touching(bodies, i, j)) =>
                /\ Len(bodies) >= 3
                /\ <<i, j>> # <<lastPair.i, lastPair.j>>

\* Three bodies in a row: the run separated the first from the third, which
\* overlapped, and so pushed the first into the second, whose pair had been
\* handled; the run is over and the first two touch.
C27_Witness ==
    /\ RunOver /\ Len(bodies) = 3
    /\ Touching(before, 1, 3) /\ ~Touching(before, 1, 2)
    /\ ~Touching(bodies, 1, 3) /\ ~Touching(bodies, 2, 3)
    /\ Touching(bodies, 1, 2)

\* The velocities of the bodies, each with the number of bodies that have it.
VelBag(bs) ==
    [v \in {bs[k].vel : k \in 1..Len(bs)} |->
        Cardinality({k \in 1..Len(bs) : bs[k].vel = v})]

\* Body k touched no other body when the run began.
AloneBefore(k) == \A j \in 1..Len(before) : j # k => ~Touching(before, k, j) /\ ~Touching(before, j, k)

\* C28 as stated: the run leaves the multiset of velocities as it found it,
\* and a body that touched no other body when the run began has the
\* velocity and the position it had.
C28_UntouchedKept ==
    /\ VelBag(bodies) = VelBag(before)
    /\ \A k \in 1..Len(bodies) :
           AloneBefore(k) =>
               bodies[k].vel = before[k].vel /\ bodies[k].pos = before[k].pos

\* The pair the next iteration of the run's loop takes.
NextPair == PairsOf(Len(bodies))[pairIdx + 1]

\* C28, amended: every iteration of the run leaves the multiset of
\* velocities as it found it, and changes no body but the two of its pair,
\* and those only if they touch when the iteration tests them.
C28_VelocitiesPermuted ==
    /\ [](VelBag(bodies) = VelBag(before))
    /\ [][\A k \in 1..Len(bodies) :
            bodies'[k] # bodies[k] =>
                /\ k \in {NextPair[1], NextPair[2]}
                /\ Touching(bodies, NextPair[1], NextPair[2])]_vars

\* A row of three with different velocities: the third body touched nothing
\* when the run began, was run into by the second when the first pair was
\* separated, and ends with another velocity in another place; the
\* velocities are those of the start, in another order.
C28_Witness ==
    /\ RunOver /\ Len(bodies) = 3
    /\ AloneBefore(3)
    /\ bodies[3].vel # before[3].vel /\ bodies[3].pos # before[3].pos
    /\ {before[k].vel : k \in 1..3} = {Vec(200, 0), Vec(0, 0), Vec(-100, 300)}
    /\ VelBag(bodies) = VelBag(before)

----------------------------------------------------------------------------
(* Claims about the pixel GuidanceField::get reads *)

\* The queried position lies inside the field's pixel extent.
InsideExtent ==
    /\ ~qpos.x.nan /\ ~qpos.y.nan
    /\ ShiftedX >= 0 /\ ShiftedX < qfield.w * 10
    /\ ShiftedY >= 0 /\ ShiftedY < qfield.h * 10

\* The column and the row get hands to get_pixel_checked.
QueriedColumn == F32AsU32(F32(ShiftedX))

QueriedRow == qfield.h - F32AsU32(F32(ShiftedY))

\* C29: a query inside the field's extent reads a pixel of the image, in a
\* column of 0..w-1 and a row of 0..h-1, and returns the intensity stored
\* there.
C29_InExtentReadsPixel ==
    (qres.done /\ InsideExtent) =>
        /\ QueriedColumn \in 0..(qfield.w - 1)
        /\ QueriedRow \in 0..(qfield.h - 1)
        /\ qres.value = PixelAt(qfield, QueriedColumn, QueriedRow)

----------------------------------------------------------------------------
(* Claims about a car that stays on its start/finish line *)

\* The car's lap state after the first k of its touches.
RECURSIVE LapStateAfter(_)
LapStateAfter(k) ==
    IF k = 0 THEN [lap |-> 0, sm |-> 0, sf |-> 0]
    ELSE Touch(LapStateAfter(k - 1), checkpoints[touches[k]])

\* Touches i..j are consecutive ticks on the car's start/finish checkpoint,
\* with no other checkpoint touched.
ContactRun(i, j) ==
    /\ 1 <= i /\ i <= j /\ j <= Len(touches)
    /\ \A m \in i..j : touches[m] = touches[i]
    /\ checkpoints[touches[i]] = startFinishBit

\* lapCount went up at most once over every run of ticks the car has spent
\* on its start/finish checkpoint.
OncePerContact ==
    /\ lapCount = LapStateAfter(Len(touches)).lap
    /\ \A i, j \in 1..Len(touches) :
           ContactRun(i, j) =>
               LapStateAfter(j).lap - LapStateAfter(i - 1).lap <= 1

\* C30 as stated: for one or more checkpoints, lapCount goes up at most
\* once while the car stays on its start/finish checkpoint.
C30_AnyCheckpoints ==
    (loaded /\ Len(checkpoints) >= 1) => OncePerContact

\* C30, amended: for two or more checkpoints, lapCount goes up at most once
\* while the car stays on its start/finish checkpoint.
C30_NoLapOnTheLine ==
    (loaded /\ Len(checkpoints) >= 2) => OncePerContact

\* With two checkpoints the car went round once and then stayed on its
\* start/finish line for three ticks: one lap.
C30_Witness ==
    /\ Len(checkpoints) = 2
    /\ touches = <<1, 2, 1, 1, 1>>
    /\ ContactRun(3, 5)
    /\ lapCount = 1

====
